---- MODULE Spec2Model ----
(***************************************************************************)
(* Turn-taking orchestration and score aggregation of the debate engine.   *)
(*                                                                         *)
(*   Spec       the debate loop (debateai/graph.py, tool_streaming.py)     *)
(*              driving the turn executor (agents/base_agent.py)           *)
(*   SpecFair   the same loop with the fairness of a synchronous program   *)
(*   SpecJudge  the judges (agentic/agents/debate/judge.py and             *)
(*              agentic/agents/rappers/judge.py)                           *)
(*   SpecYouTube     the YouTube workflow (agentic/graph/youtube.py)       *)
(*   SpecTools       both turn executors with tools enabled                *)
(*   SpecCalls       execute_tool_call and filter_arguments on their own   *)
(*   SpecBattle      the rap battle loop (debateai/rap_battle_graph.py)    *)
(*   SpecBattleFair  the same loop with the fairness of a synchronous      *)
(*                   program                                               *)
(*   SpecWrapper     safe_run and _invoke_tool_safely with the deny-list   *)
(*                   of the filter as state (utils/safe_tool_invoke.py)    *)
(*   SpecSink        the judges called with and without a ui               *)
(*   SpecLabels      the totals of finalize_judgment for any speaker label *)
(*   SpecWorkflow    the loop of the YouTube workflow, a turn as one step  *)
(*                                                                         *)
(* Texts are sequences of tokens, so that concatenation is \o.  Scores are *)
(* whole points.                                                           *)
(***************************************************************************)
EXTENDS Integers, Sequences, FiniteSets, TLC

VARIABLES
    driver,               \* which run_* function drives the loop
    with_tools,           \* the with_tools argument
    max_turns,            \* the max_turns argument of run_streaming_debate
    state,                \* the ChatState dict of the loop
    pc,                   \* position of the loop / of stream_response
    messages,             \* local of stream_response: the prompt sent
    accumulated_content,  \* local of stream_response
    tool_calls,           \* local of stream_response
    new_messages,         \* local of stream_response
    tool_idx,             \* index of the tool call the for loop is at
    final_accumulated,    \* local of stream_response
    chunks_seen,          \* chunks consumed from the current stream
    calls_emitted,        \* tool-call chunks the model emitted in this run
    tool_env,             \* what tool.invoke does in this run: "ok" or "raise"
    turn_log,             \* history: the speaker of every turn begun
    turn_hist,            \* history: where the last turn began, what it captured
    exec_log,             \* history: tool calls dispatched in the last turn
    judge_kind,           \* which judge class: "debate" or "rap"
    judge_model,          \* whether create_model_instance(self.model_name) works
    scores,               \* self.scores of the judge
    final_judgment,       \* self.final_judgment of the judge
    judgment,             \* what the last finalize_judgment call returned
    last_returned,        \* what the last evaluate_turn call returned
    last_response,        \* what the judge model did in the last evaluate_turn
    eval_calls,           \* history: number of evaluate_turn calls
    ui,                   \* whether the judge is called with a ui
    current_state,        \* current_state of run_youtube_automation
    workflow_steps,       \* workflow_steps of run_youtube_automation
    step_idx,             \* steps of the workflow that are over
    max_steps,            \* the max_steps argument
    valid_tool_calls,     \* local of BaseYouTubeAgent.stream_response
    with_judge,           \* the with_judge argument of run_rap_battle
    current_round,        \* current_round of run_rap_battle
    battle_context,       \* battle_context of run_rap_battle
    finalize_calls,       \* history: number of finalize_judgment calls
    fn_call,              \* the call a function is entered with
    fn_result,            \* what the call returned or raised
    problematic_params    \* the class attribute ToolArgumentFilter.PROBLEMATIC_PARAMS

loopVars == <<driver, with_tools, max_turns, state, pc, messages,
              accumulated_content, tool_calls, new_messages, tool_idx,
              final_accumulated, chunks_seen, calls_emitted, tool_env,
              turn_log, turn_hist, exec_log>>

judgeVars == <<judge_kind, judge_model, scores, final_judgment, judgment,
               last_returned, last_response, eval_calls, ui>>

ytVars == <<current_state, workflow_steps, step_idx, max_steps, valid_tool_calls>>

battleVars == <<with_judge, current_round, battle_context, finalize_calls>>

callVars == <<fn_call, fn_result, problematic_params>>

\* what the debate loop leaves alone
outsideLoop == <<judgeVars, ytVars, battleVars, callVars>>

\* what the judge leaves alone
outsideJudge == <<loopVars, ytVars, battleVars, callVars>>

\* what the YouTube workflow leaves alone
outsideYouTube == <<judgeVars, battleVars, callVars>>

(***************************************************************************)
(* Bounds of the model.                                                    *)
(***************************************************************************)
MaxTurns == 2
MaxChunks == 2
MaxToolChunks == 1
MaxEvals == 3
MaxSteps == 2
MaxRounds == 1

(***************************************************************************)
(* Messages.                                                               *)
(***************************************************************************)
Missing == "<missing>"

HumanMessage(c) ==
    [type |-> "human", content |-> c, tool_calls |-> <<>>, tool_call_id |-> Missing]

AIMessage(c, tcs) ==
    [type |-> "ai", content |-> c, tool_calls |-> tcs, tool_call_id |-> Missing]

ToolMessage(c, id) ==
    [type |-> "tool", content |-> c, tool_calls |-> <<>>, tool_call_id |-> id]

initial_prompt == <<"initial_prompt">>

(***************************************************************************)
(* Tool-call requests as the model stream delivers them.  shape is how the *)
(* code can inspect the request: an object with attributes, a dict, or     *)
(* anything else; a dict key that is absent is Missing.                    *)
(***************************************************************************)
ToolCall(shape, name, args, id) ==
    [shape |-> shape, name |-> name, args |-> args, id |-> id]

good_call == ToolCall("dict", "search_web", {"query"}, "call_1")
index_call == ToolCall("dict", "search_web", {"query", "index"}, "call_2")
no_name_call == ToolCall("dict", Missing, {"query"}, "call_3")
no_id_call == ToolCall("dict", "search_web", {"query"}, Missing)
other_call == ToolCall("other", Missing, {}, Missing)
unknown_call == ToolCall("dict", "lookup", {"query"}, "call_5")

\* the tool_calls lists one chunk can carry
Batches ==
    { <<good_call, index_call>>, <<no_id_call>>,
      <<no_name_call, other_call, unknown_call>> }

\* tools_registry._register_default_tools
tool_map == {"search_web"}

\* f"tool_call_{len(new_messages)}"
SynthId(msgs) == "tool_call_" \o ToString(Len(msgs))

(***************************************************************************)
(* execute_tool_call: the result string for one request.  outcome is what  *)
(* tool.invoke does when it is reached: "ok" or "raise".                   *)
(***************************************************************************)
execute_tool_call(tool_call, outcome) ==
    IF tool_call.shape = "other"
    THEN <<"Error: Invalid tool call format">>
    ELSE LET tool_name == IF tool_call.name = Missing THEN "" ELSE tool_call.name
         IN  IF tool_name = ""
             THEN <<"Error: Tool name not found in tool call">>
             ELSE IF tool_name \notin tool_map
             THEN <<"Error: Tool not found. Available tools:", tool_name>>
             ELSE IF outcome = "raise"
             THEN <<"Error executing tool", tool_name, "exc">>
                  \o (IF "index" \in tool_call.args
                      THEN <<"(Note: Removed unexpected 'index' parameter)">>
                      ELSE <<>>)
             ELSE <<"result", tool_name>>

(***************************************************************************)
(* The agents of the loop: next_speaker of LeftAgent / RightAgent.         *)
(***************************************************************************)
\* mutant: the agent hands the turn back to itself
next_speaker_same(speaker) == speaker

next_speaker(speaker) == IF speaker = "left" THEN "right" ELSE "left"

\* mutant: the turn counter advances by two
final_state_double(msgs) ==
    [messages |-> msgs,
     current_speaker |-> next_speaker(state.current_speaker),
     conversation_count |-> state.conversation_count + 2,
     max_turns |-> state.max_turns]

\* the ChatState a turn yields
final_state(msgs) ==
    [messages |-> msgs,
     current_speaker |-> next_speaker(state.current_speaker),
     conversation_count |-> state.conversation_count + 1,
     max_turns |-> state.max_turns]

ResetLocals ==
    /\ messages' = <<>>
    /\ accumulated_content' = <<>>
    /\ tool_calls' = <<>>
    /\ new_messages' = <<>>
    /\ tool_idx' = 0
    /\ final_accumulated' = <<>>
    /\ chunks_seen' = 0

(***************************************************************************)
(* The prompt: the persona goes into a copy of the transcript.             *)
(***************************************************************************)
\* self.get_persona_with_tools() if with_tools else self.persona
persona_text(speaker) ==
    IF with_tools THEN <<"persona", speaker, "tool descriptions">>
    ELSE <<"persona", speaker>>

continue_text == <<"Please respond to the ongoing debate">>

\* BaseStreamingAgent.stream_response: messages = state["messages"].copy() ...
prepare_messages(msgs, persona) ==
    IF msgs # <<>> /\ msgs[1].type = "human"
    THEN IF Len(msgs) = 1
         THEN <<HumanMessage(persona \o msgs[1].content)>>
         ELSE <<HumanMessage(persona \o continue_text)>> \o msgs
    ELSE msgs

\* tool_streaming.left_agent_stream_response_with_tools
left_prepare_messages(msgs, persona) ==
    IF msgs # <<>> /\ msgs[1].type = "human"
    THEN <<HumanMessage(persona \o msgs[1].content)>> \o Tail(msgs)
    ELSE msgs

\* tool_streaming.right_agent_stream_response_with_tools
right_prepare_messages(msgs, persona) ==
    IF Len(msgs) > 1
    THEN <<HumanMessage(persona)>> \o Tail(msgs)
    ELSE IF msgs # <<>> /\ msgs[1].type = "human"
    THEN <<HumanMessage(persona \o msgs[1].content)>>
    ELSE msgs

\* the prompt the turn of state.current_speaker sends to model.stream
Prompt ==
    LET persona == persona_text(state.current_speaker)
    IN  IF driver = "graph" THEN prepare_messages(state.messages, persona)
        ELSE IF state.current_speaker = "left"
        THEN left_prepare_messages(state.messages, persona)
        ELSE right_prepare_messages(state.messages, persona)

\* mutant: the turn appends to the prompt, persona included
turn_base_prompt(transcript, prompt) == prompt

\* new_messages = state["messages"].copy(): the list the turn appends to
turn_base(transcript, prompt) == transcript

(***************************************************************************)
(* The judge before its first call, JudgeAgent.__init__, and the values    *)
(* the histories hold before there is anything to record.                  *)
(***************************************************************************)
NoScore == [none |-> "score"]
NoJudgment == [none |-> "judgment"]
NoResponse == [none |-> "response"]

\* the workflow while something else is what runs
YouTubeIdle ==
    /\ current_state = [none |-> "workflow"]
    /\ workflow_steps = <<>>
    /\ step_idx = 0
    /\ max_steps = 0
    /\ valid_tool_calls = <<>>

\* run_rap_battle while something else is what runs
BattleIdle ==
    /\ with_judge = FALSE
    /\ current_round = 1
    /\ battle_context = <<>>
    /\ finalize_calls = 0

\* no function is called on its own
NoCall == [fn |-> "none"]

\* ToolArgumentFilter.PROBLEMATIC_PARAMS
PROBLEMATIC_PARAMS ==
    {"index", "step", "order", "position", "id", "number", "sequence",
     "count", "rank", "priority", "level", "stage", "phase", "iteration",
     "turn", "round", "cycle", "attempt", "try", "run", "execution",
     "call_id", "request_id", "session_id", "timestamp", "time",
     "task_id", "process_id", "batch_id", "job_id", "thread_id"}

CallIdle ==
    /\ fn_call = NoCall
    /\ fn_result = NoCall
    /\ problematic_params = PROBLEMATIC_PARAMS

\* the judge while the debate loop is what runs
JudgeIdle ==
    /\ judge_kind = "debate"
    /\ judge_model = "ok"
    /\ scores = <<>>
    /\ final_judgment = NoJudgment
    /\ judgment = NoJudgment
    /\ last_returned = NoScore
    /\ last_response = NoResponse
    /\ eval_calls = 0
    /\ ui = FALSE

(***************************************************************************)
(* Init: the state built by run_streaming_debate before the while loop.    *)
(***************************************************************************)
Init ==
    /\ JudgeIdle
    /\ YouTubeIdle
    /\ BattleIdle
    /\ CallIdle
    /\ driver \in {"graph", "legacy"}
    /\ with_tools \in (IF driver = "legacy" THEN {TRUE} ELSE BOOLEAN)
    /\ max_turns \in 0..MaxTurns
    /\ state = [messages |-> <<HumanMessage(initial_prompt)>>,
                current_speaker |-> "left",
                conversation_count |-> 0,
                max_turns |-> max_turns]
    /\ pc = "loop"
    /\ messages = <<>>
    /\ accumulated_content = <<>>
    /\ tool_calls = <<>>
    /\ new_messages = <<>>
    /\ tool_idx = 0
    /\ final_accumulated = <<>>
    /\ chunks_seen = 0
    /\ calls_emitted = 0
    /\ tool_env \in {"ok", "raise"}
    /\ turn_log = <<>>
    /\ turn_hist = [start |-> 0, calls |-> <<>>, tools |-> FALSE, text |-> <<>>]
    /\ exec_log = <<>>

(***************************************************************************)
(* while state["conversation_count"] < max_turns: the loop test succeeds   *)
(* and stream_response starts by creating the model.                       *)
(***************************************************************************)
BeginTurn ==
    /\ pc = "loop"
    /\ state.conversation_count < max_turns
    /\ turn_log' = Append(turn_log, state.current_speaker)
    /\ exec_log' = <<>>
    /\ turn_hist' = [start |-> Len(state.messages), calls |-> <<>>,
                     tools |-> FALSE, text |-> <<>>]
    /\ accumulated_content' = <<>>
    /\ tool_calls' = <<>>
    /\ new_messages' = <<>>
    /\ tool_idx' = 0
    /\ final_accumulated' = <<>>
    /\ chunks_seen' = 0
    /\ \E created \in BOOLEAN :
         IF created
         THEN /\ pc' = "stream"
              /\ messages' = Prompt
              /\ state' = state
         ELSE IF driver = "graph"
         THEN \* except ValueError: yield the error state and return
              /\ pc' = "loop"
              /\ messages' = <<>>
              /\ state' = final_state(Append(state.messages,
                                             AIMessage(<<"Error: ", "exc">>, <<>>)))
         ELSE \* initialize_models raises out of the generator and the loop
              /\ pc' = "raised"
              /\ messages' = <<>>
              /\ state' = state
    /\ UNCHANGED <<driver, with_tools, max_turns, tool_env, calls_emitted>>
    /\ UNCHANGED outsideLoop

\* the while test fails: return state
Return ==
    /\ pc = "loop"
    /\ ~(state.conversation_count < max_turns)
    /\ pc' = "returned"
    /\ UNCHANGED <<driver, with_tools, max_turns, tool_env, state, messages,
                   accumulated_content, tool_calls, new_messages, tool_idx,
                   final_accumulated, chunks_seen, calls_emitted, turn_log,
                   turn_hist, exec_log>>
    /\ UNCHANGED outsideLoop

(***************************************************************************)
(* for chunk in model.stream(messages)                                     *)
(***************************************************************************)
\* accumulated_content += chunk.content
accumulate(acc, content) == acc \o content

\* the except branch of the first stream: what accumulated_content becomes
stream_error_content(acc) ==
    <<"Error occurred during response generation: ", "exc">>

\* the except branch of the follow-up stream
final_error_content(acc) ==
    <<"Error occurred during final response: ", "exc">>

\* a chunk with content (any tool calls on the same chunk are not looked at)
StreamText ==
    /\ pc = "stream"
    /\ chunks_seen < MaxChunks
    /\ chunks_seen' = chunks_seen + 1
    /\ accumulated_content' = accumulate(accumulated_content, <<"txt">>)
    /\ UNCHANGED <<driver, with_tools, max_turns, tool_env, state, pc, messages,
                   tool_calls, new_messages, tool_idx, final_accumulated,
                   calls_emitted, turn_log, turn_hist, exec_log>>
    /\ UNCHANGED outsideLoop

\* a chunk without content whose tool_calls, or additional_kwargs
\* ['tool_calls'], carry requests: tool_calls.extend(...)
StreamToolCalls ==
    /\ pc = "stream"
    /\ chunks_seen < MaxChunks
    /\ calls_emitted < MaxToolChunks
    /\ \E batch \in Batches : tool_calls' = tool_calls \o batch
    /\ chunks_seen' = chunks_seen + 1
    /\ calls_emitted' = calls_emitted + 1
    /\ UNCHANGED <<driver, with_tools, max_turns, tool_env, state, pc, messages,
                   accumulated_content, new_messages, tool_idx,
                   final_accumulated, turn_log, turn_hist, exec_log>>
    /\ UNCHANGED outsideLoop

\* if tool_calls and with_tools (tool_streaming.py: if tool_calls)
TakesToolBranch_ignoring_flag == tool_calls # <<>>

TakesToolBranch ==
    /\ tool_calls # <<>>
    /\ (driver = "legacy" \/ with_tools)

\* the turn is over: the generator yields final_state and the loop assigns it
FinishTurn(msgs) ==
    /\ state' = final_state(msgs)
    /\ pc' = "loop"
    /\ ResetLocals

\* what follows the first stream, acc being the accumulated content
AfterStream(acc) ==
    /\ turn_hist' = [turn_hist EXCEPT !.calls = tool_calls,
                                      !.tools = TakesToolBranch,
                                      !.text = acc]
    /\ IF TakesToolBranch
       THEN /\ new_messages' = Append(turn_base(state.messages, messages),
                                      AIMessage(acc, tool_calls))
            /\ accumulated_content' = acc
            /\ tool_idx' = 1
            /\ pc' = "tools"
            /\ UNCHANGED <<state, messages, tool_calls, final_accumulated,
                           chunks_seen>>
       ELSE FinishTurn(Append(turn_base(state.messages, messages),
                              AIMessage(acc, <<>>)))

\* the stream ends
StreamEnd ==
    /\ pc = "stream"
    /\ AfterStream(accumulated_content)
    /\ UNCHANGED <<driver, with_tools, max_turns, tool_env, calls_emitted, turn_log,
                   exec_log>>
    /\ UNCHANGED outsideLoop

\* the stream raises: except Exception
StreamRaise ==
    /\ pc = "stream"
    /\ AfterStream(stream_error_content(accumulated_content))
    /\ UNCHANGED <<driver, with_tools, max_turns, tool_env, calls_emitted, turn_log,
                   exec_log>>
    /\ UNCHANGED outsideLoop

(***************************************************************************)
(* for tool_call in tool_calls: one iteration.                             *)
(***************************************************************************)
\* the requests the for loop skips with continue
Skipped(tool_call) == tool_call.shape = "other"

\* mutant: every tool message gets a synthesized id
tool_id_synthesized(tool_call, msgs) == SynthId(msgs)

\* tool_id of a request that is not skipped
tool_id_of(tool_call, msgs) ==
    IF tool_call.id = Missing THEN SynthId(msgs) ELSE tool_call.id

ExecTool ==
    /\ pc = "tools"
    /\ tool_idx <= Len(tool_calls)
    /\ LET tool_call == tool_calls[tool_idx]
       IN  IF Skipped(tool_call)
           THEN UNCHANGED <<new_messages, exec_log>>
           ELSE /\ new_messages' =
                     Append(new_messages,
                            ToolMessage(execute_tool_call(tool_call, tool_env),
                                        tool_id_of(tool_call, new_messages)))
                /\ exec_log' = Append(exec_log, tool_call)
    /\ IF tool_idx = Len(tool_calls)
       THEN /\ pc' = "final"
            /\ tool_idx' = tool_idx
       ELSE /\ tool_idx' = tool_idx + 1
            /\ pc' = pc
    /\ chunks_seen' = chunks_seen
    /\ UNCHANGED <<driver, with_tools, max_turns, tool_env, state, messages,
                   accumulated_content, tool_calls, final_accumulated,
                   calls_emitted, turn_log, turn_hist>>
    /\ UNCHANGED outsideLoop

(***************************************************************************)
(* for chunk in model.stream(new_messages): the follow-up stream.          *)
(***************************************************************************)
FinalText ==
    /\ pc = "final"
    /\ chunks_seen < MaxChunks
    /\ chunks_seen' = chunks_seen + 1
    /\ final_accumulated' = accumulate(final_accumulated, <<"txt">>)
    /\ UNCHANGED <<driver, with_tools, max_turns, tool_env, state, pc, messages,
                   accumulated_content, tool_calls, new_messages, tool_idx,
                   calls_emitted, turn_log, turn_hist, exec_log>>
    /\ UNCHANGED outsideLoop

FinalEnd ==
    /\ pc = "final"
    /\ FinishTurn(Append(new_messages, AIMessage(final_accumulated, <<>>)))
    /\ UNCHANGED <<driver, with_tools, max_turns, tool_env, calls_emitted,
                   turn_log, turn_hist, exec_log>>
    /\ UNCHANGED outsideLoop

FinalRaise ==
    /\ pc = "final"
    /\ IF driver = "graph"
       THEN \* except Exception: the error text becomes the final message
            FinishTurn(Append(new_messages,
                   AIMessage(final_error_content(final_accumulated), <<>>)))
       ELSE \* tool_streaming.py has no try around the follow-up stream
            /\ pc' = "raised"
            /\ UNCHANGED <<state, messages, accumulated_content, tool_calls,
                           new_messages, tool_idx, final_accumulated,
                           chunks_seen>>
    /\ UNCHANGED <<driver, with_tools, max_turns, tool_env, calls_emitted,
                   turn_log, turn_hist, exec_log>>
    /\ UNCHANGED outsideLoop

Next ==
    \/ BeginTurn
    \/ StreamText
    \/ StreamToolCalls
    \/ StreamEnd
    \/ StreamRaise
    \/ ExecTool
    \/ FinalText
    \/ FinalEnd
    \/ FinalRaise
    \/ Return

vars == <<loopVars, judgeVars, ytVars, battleVars, callVars>>

Spec == Init /\ [][Next]_vars

\* a synchronous program keeps running while it has a next step
SpecFair == Spec /\ WF_vars(Next)

(***************************************************************************)
(* The judges: JudgeAgent (debates) and RapBattleJudge (rap battles).      *)
(* The eight criteria are kept in the order the score classes declare      *)
(* them; the three text fields of a score are one feedback token.          *)
(***************************************************************************)
\* required_fields of _parse_evaluation_response, in the order of the list
required_fields(kind) ==
    IF kind = "debate"
    THEN <<"logic_reasoning", "evidence_quality", "source_credibility",
           "argument_structure", "rebuttal_effectiveness",
           "clarity_communication", "factual_accuracy", "originality",
           "strengths", "weaknesses", "specific_feedback">>
    ELSE <<"flow_delivery", "lyrical_complexity", "wordplay_creativity",
           "punchlines_impact", "crowd_appeal", "battle_tactics",
           "rhyme_scheme", "originality",
           "best_bars", "weaknesses", "judge_comments">>

\* the two sides finalize_judgment totals
SideA(kind) == IF kind = "debate" THEN "progressive" ELSE "rapper1"

SideB(kind) == IF kind = "debate" THEN "conservative" ELSE "rapper2"

\* the labels a caller passes: the two sides of the debate, the two
\* rappers' names
Speakers(kind) == {SideA(kind), SideB(kind)}

(***************************************************************************)
(* What the judge model answers.  A JSON object is one token of the        *)
(* response text; JsonObjects tells what json.loads makes of it: lacks are *)
(* the positions of required_fields the object has no key for, numeric is  *)
(* FALSE when a criterion is null, has_total says that the object carries  *)
(* a "total_score" key of its own.                                         *)
(***************************************************************************)
JsonObject(values, lacks, numeric, has_total, total) ==
    [values |-> values, lacks |-> lacks, numeric |-> numeric,
     has_total |-> has_total, total |-> total, listed |-> TRUE]

\* an object whose "strengths" and "weaknesses" are null instead of lists
null_lists(object) == [object EXCEPT !.listed = FALSE]

JsonObjects ==
    [obj48 |-> JsonObject(<<6, 6, 6, 6, 6, 6, 6, 6>>, {}, TRUE, FALSE, 0),
     obj51 |-> JsonObject(<<7, 7, 7, 6, 6, 6, 6, 6>>, {}, TRUE, FALSE, 0),
     obj53 |-> JsonObject(<<7, 7, 7, 7, 7, 6, 6, 6>>, {}, TRUE, TRUE, 53),
     obj80 |-> JsonObject(<<10, 10, 10, 10, 10, 10, 10, 10>>, {}, TRUE, TRUE, 12),
     obj_out_of_range |-> JsonObject(<<12, 12, 12, 12, 12, 12, 12, -3>>, {}, TRUE, FALSE, 0),
     obj_no_criterion |-> JsonObject(<<9, 9, 9, 9, 9, 9, 9, 9>>, {8}, TRUE, FALSE, 0),
     obj_no_text |-> JsonObject(<<9, 9, 9, 9, 9, 9, 9, 9>>, {9}, TRUE, TRUE, 72),
     obj_null |-> JsonObject(<<9, 9, 9, 9, 9, 9, 9, 9>>, {}, FALSE, FALSE, 0),
     obj_null_lists |->
         null_lists(JsonObject(<<6, 6, 6, 6, 6, 6, 6, 6>>, {}, TRUE, FALSE, 0))]

\* response.content of the judge model
Contents ==
    { <<"not json">>,
      <<"{">>,
      <<"}", "{">>,
      <<"{", "garbage", "}">>,
      <<"{", "obj51", "}", "{", "obj51", "}">> }
    \cup { <<"text", "{", o, "}", "text">> : o \in DOMAIN JsonObjects }

\* model.invoke(messages): it raises, or it returns a response
Responses ==
    { [raises |-> TRUE, content |-> <<>>] }
    \cup { [raises |-> FALSE, content |-> c] : c \in Contents }

\* str.find: the 0-based index of the first occurrence, -1 when there is none
find(content, tok) ==
    IF \E i \in 1..Len(content) : content[i] = tok
    THEN (CHOOSE i \in 1..Len(content) :
            /\ content[i] = tok
            /\ \A j \in 1..(i - 1) : content[j] # tok) - 1
    ELSE -1

\* str.rfind: the 0-based index of the last occurrence, -1 when there is none
rfind(content, tok) ==
    IF \E i \in 1..Len(content) : content[i] = tok
    THEN (CHOOSE i \in 1..Len(content) :
            /\ content[i] = tok
            /\ \A j \in (i + 1)..Len(content) : content[j] # tok) - 1
    ELSE -1

\* response_content[start_idx:end_idx]
Slice(content, start_idx, end_idx) == SubSeq(content, start_idx + 1, end_idx)

\* json.loads: one object and nothing else, or JSONDecodeError
json_loads(json_str) ==
    IF /\ Len(json_str) = 3
       /\ json_str[1] = "{"
       /\ json_str[3] = "}"
       /\ json_str[2] \in DOMAIN JsonObjects
    THEN [ok |-> TRUE, data |-> JsonObjects[json_str[2]]]
    ELSE [ok |-> FALSE, data |-> JsonObjects.obj48]

\* the keys of a parsed object
Keys(kind, data) ==
    { required_fields(kind)[i] : i \in (1..11) \ data.lacks }
    \cup (IF data.has_total THEN {"total_score"} ELSE {})

FALLBACK_CRITERION == 6
FALLBACK_TOTAL == 48

\* mutant: the fallback evaluation scores every criterion 5
create_fallback_evaluation_low ==
    [values |-> <<5, 5, 5, 5, 5, 5, 5, 5>>, numeric |-> TRUE,
     has_total |-> FALSE, total |-> 0, listed |-> TRUE,
     feedback |-> "fallback_evaluation"]

\* _create_fallback_evaluation
create_fallback_evaluation ==
    [values |-> <<FALLBACK_CRITERION, FALLBACK_CRITERION, FALLBACK_CRITERION, FALLBACK_CRITERION,
      FALLBACK_CRITERION, FALLBACK_CRITERION, FALLBACK_CRITERION, FALLBACK_CRITERION>>, numeric |-> TRUE,
     has_total |-> FALSE, total |-> 0, listed |-> TRUE,
     feedback |-> "fallback_evaluation"]

\* _parse_evaluation_response: the evaluation_data dict
parse_evaluation_response(kind, response_content) ==
    LET start_idx == find(response_content, "{")
        end_idx == rfind(response_content, "}") + 1
    IN  IF start_idx # -1 /\ end_idx # 0
        THEN LET parsed == json_loads(Slice(response_content, start_idx, end_idx))
             IN  IF ~parsed.ok
                 THEN create_fallback_evaluation
                 ELSE IF \E i \in 1..11 :
                           required_fields(kind)[i] \notin Keys(kind, parsed.data)
                 THEN create_fallback_evaluation
                 ELSE [values |-> parsed.data.values,
                       numeric |-> parsed.data.numeric,
                       has_total |-> parsed.data.has_total,
                       total |-> parsed.data.total,
                       listed |-> parsed.data.listed,
                       feedback |-> "model"]
        ELSE create_fallback_evaluation

\* the sum of a sequence of numbers
RECURSIVE SumSeq(_)
SumSeq(q) == IF q = <<>> THEN 0 ELSE Head(q) + SumSeq(Tail(q))

\* mutant: the total the model wrote is taken when there is one
total_from_model(evaluation_data) ==
    IF evaluation_data.has_total THEN evaluation_data.total
    ELSE SumSeq(evaluation_data.values)

\* total_score = evaluation_data["logic_reasoning"] + ... + ["originality"]
total_of(evaluation_data) == SumSeq(evaluation_data.values)

\* DebateScore(...) / RapBattleScore(...)
Score(turn_number, speaker, values, total_score, feedback) ==
    [turn_number |-> turn_number, speaker |-> speaker, criteria |-> values,
     total_score |-> total_score, feedback |-> feedback]

\* _create_fallback_score
create_fallback_score(turn_number, speaker) ==
    Score(turn_number, speaker, <<FALLBACK_CRITERION, FALLBACK_CRITERION, FALLBACK_CRITERION, FALLBACK_CRITERION,
      FALLBACK_CRITERION, FALLBACK_CRITERION, FALLBACK_CRITERION, FALLBACK_CRITERION>>,
          FALLBACK_TOTAL, "fallback_score")

\* self.scores.append(score)
append_score(collection, score) == Append(collection, score)

(***************************************************************************)
(* evaluate_turn / evaluate_round: the score returned and the collection   *)
(* afterwards.  response is what model.invoke does in this call.           *)
(***************************************************************************)
evaluate_turn(turn_number, speaker, response) ==
    IF judge_model # "ok"
    THEN \* except ValueError: return self._create_fallback_score(...)
         [returned |-> create_fallback_score(turn_number, speaker),
          scores |-> scores]
    ELSE IF response.raises
    THEN \* except Exception: return self._create_fallback_score(...)
         [returned |-> create_fallback_score(turn_number, speaker),
          scores |-> scores]
    ELSE LET evaluation_data ==
                 parse_evaluation_response(judge_kind, response.content)
         IN  IF ~evaluation_data.numeric
             THEN \* the sum raises TypeError: except Exception
                  [returned |-> create_fallback_score(turn_number, speaker),
                   scores |-> scores]
             ELSE LET score == Score(turn_number, speaker,
                                     evaluation_data.values,
                                     total_of(evaluation_data),
                                     evaluation_data.feedback)
                  IN  [returned |-> score,
                       scores |-> append_score(scores, score)]

\* the judge is used as run_rap_battle uses it: the turns are evaluated one
\* after the other, then finalize_judgment is called once
EvaluateTurn ==
    /\ pc = "judge"
    /\ judgment = NoJudgment
    /\ eval_calls < MaxEvals
    /\ \E speaker \in Speakers(judge_kind), response \in Responses :
         LET result == evaluate_turn(eval_calls + 1, speaker, response)
         IN  /\ scores' = result.scores
             /\ last_returned' = result.returned
             /\ last_response' = response
    /\ eval_calls' = eval_calls + 1
    /\ UNCHANGED <<judge_kind, judge_model, final_judgment, judgment, ui>>
    /\ UNCHANGED outsideJudge

(***************************************************************************)
(* finalize_judgment                                                       *)
(***************************************************************************)
DEBATE_TIE_THRESHOLD == 5
RAP_TIE_THRESHOLD == 3

TieThreshold(kind) ==
    IF kind = "debate" THEN DEBATE_TIE_THRESHOLD ELSE RAP_TIE_THRESHOLD

abs(x) == IF x < 0 THEN 0 - x ELSE x

\* sum(s.total_score for s in self.scores if s.speaker == side)
RECURSIVE side_total(_, _)
side_total(collection, side) ==
    IF collection = <<>> THEN 0
    ELSE (IF Head(collection).speaker = side
          THEN Head(collection).total_score ELSE 0)
         + side_total(Tail(collection), side)

\* mutant: a difference equal to the threshold is a tie too
is_tie_inclusive(total_A, total_B, threshold) ==
    abs(total_A - total_B) <= threshold

\* if abs(progressive_total - conservative_total) < 5.0
is_tie(total_A, total_B, threshold) == abs(total_A - total_B) < threshold

\* avg_total = (total_A + total_B) / len(self.scores) against the tiers
quality_of(kind, total_A, total_B, n) ==
    IF kind = "debate"
    THEN IF total_A + total_B >= 65 * n THEN "excellent"
         ELSE IF total_A + total_B >= 55 * n THEN "good"
         ELSE IF total_A + total_B >= 45 * n THEN "fair"
         ELSE "poor"
    ELSE IF total_A + total_B >= 70 * n THEN "legendary"
         ELSE IF total_A + total_B >= 60 * n THEN "fire"
         ELSE IF total_A + total_B >= 50 * n THEN "solid"
         ELSE "weak"

\* sum(getattr(s, category) for s in self.scores if s.speaker == side),
\* category being a position among the eight criteria
RECURSIVE category_sum(_, _, _)
category_sum(collection, side, category) ==
    IF collection = <<>> THEN 0
    ELSE (IF Head(collection).speaker = side
          THEN Head(collection).criteria[category] ELSE 0)
         + category_sum(Tail(collection), side, category)

\* len([s for s in self.scores if s.speaker == side])
side_count(collection, side) ==
    Cardinality({k \in 1..Len(collection) : collection[k].speaker = side})

\* the divisor of 'if count > 0: avg /= count': the sum of no turns stays 0
divisor(count) == IF count > 0 THEN count ELSE 1

\* mutant: means exactly 0.5 apart are a tie too
category_is_tie_inclusive(sum_A, n_A, sum_B, n_B) ==
    2 * abs(sum_A * n_B - sum_B * n_A) <= n_A * n_B

\* abs(sum_A / n_A - sum_B / n_B) < 0.5, in whole numbers
category_is_tie(sum_A, n_A, sum_B, n_B) ==
    2 * abs(sum_A * n_B - sum_B * n_A) < n_A * n_B

\* _find_category_winner
find_category_winner(kind, collection, category) ==
    LET sum_A == category_sum(collection, SideA(kind), category)
        sum_B == category_sum(collection, SideB(kind), category)
        n_A == divisor(side_count(collection, SideA(kind)))
        n_B == divisor(side_count(collection, SideB(kind)))
    IN  IF category_is_tie(sum_A, n_A, sum_B, n_B) THEN "tie"
        ELSE IF sum_A * n_B > sum_B * n_A THEN SideA(kind)
        ELSE SideB(kind)

\* the criteria behind best_logic, best_evidence, best_communication and
\* best_rebuttals (best_flow, best_wordplay, best_punchlines and
\* best_crowd_appeal), as positions in required_fields
category_fields(kind) ==
    IF kind = "debate" THEN <<1, 2, 6, 5>> ELSE <<1, 3, 4, 5>>

\* the four category winners of a collection
category_winners(kind, collection) ==
    [c \in 1..4 |-> find_category_winner(kind, collection, category_fields(kind)[c])]

\* FinalJudgment(...) / RapBattleJudgment(...)
Judgment(total_A, total_B, winner, margin, best, quality) ==
    [total_A |-> total_A, total_B |-> total_B, winner |-> winner,
     margin |-> margin, best |-> best, quality |-> quality]

\* mutant: the default judgment names the second side the winner
create_default_judgment_decided(kind) ==
    Judgment(0, 0, SideB(kind), 0, <<"tie", "tie", "tie", "tie">>,
             IF kind = "debate" THEN "fair" ELSE "incomplete")

\* _create_default_judgment
create_default_judgment(kind) ==
    Judgment(0, 0, "tie", 0, <<"tie", "tie", "tie", "tie">>,
             IF kind = "debate" THEN "fair" ELSE "incomplete")

\* the FinalJudgment finalize_judgment builds from a collection with scores
compute_judgment(kind, collection) ==
    LET total_A == side_total(collection, SideA(kind))
        total_B == side_total(collection, SideB(kind))
        best == category_winners(kind, collection)
        quality == quality_of(kind, total_A, total_B, Len(collection))
    IN  IF is_tie(total_A, total_B, TieThreshold(kind))
        THEN Judgment(total_A, total_B, "tie", abs(total_A - total_B), best, quality)
        ELSE IF total_A > total_B
        THEN Judgment(total_A, total_B, SideA(kind), total_A - total_B, best, quality)
        ELSE Judgment(total_A, total_B, SideB(kind), total_B - total_A, best, quality)

FinalizeJudgment ==
    /\ pc = "judge"
    /\ judgment = NoJudgment
    /\ IF scores = <<>>
       THEN \* if not self.scores: return self._create_default_judgment()
            /\ judgment' = create_default_judgment(judge_kind)
            /\ final_judgment' = final_judgment
       ELSE /\ final_judgment' = compute_judgment(judge_kind, scores)
            /\ judgment' = final_judgment'
    /\ UNCHANGED <<judge_kind, judge_model, scores, last_returned,
                   last_response, eval_calls, ui>>
    /\ UNCHANGED outsideJudge

\* the loop variables while a judge is what runs
LoopIdle ==
    /\ driver = "none"
    /\ with_tools = FALSE
    /\ max_turns = 0
    /\ state = [messages |-> <<>>, current_speaker |-> "left",
                conversation_count |-> 0, max_turns |-> 0]
    /\ pc = "judge"
    /\ messages = <<>>
    /\ accumulated_content = <<>>
    /\ tool_calls = <<>>
    /\ new_messages = <<>>
    /\ tool_idx = 0
    /\ final_accumulated = <<>>
    /\ chunks_seen = 0
    /\ calls_emitted = 0
    /\ tool_env = "ok"
    /\ turn_log = <<>>
    /\ turn_hist = [start |-> 0, calls |-> <<>>, tools |-> FALSE, text |-> <<>>]
    /\ exec_log = <<>>

\* JudgeAgent(model_name) / RapBattleJudge(model_name)
InitJudge ==
    /\ LoopIdle
    /\ YouTubeIdle
    /\ BattleIdle
    /\ CallIdle
    /\ judge_kind \in {"debate", "rap"}
    /\ judge_model \in {"ok", "ValueError"}
    /\ scores = <<>>
    /\ final_judgment = NoJudgment
    /\ judgment = NoJudgment
    /\ last_returned = NoScore
    /\ last_response = NoResponse
    /\ eval_calls = 0
    /\ ui = FALSE

NextJudge ==
    \/ EvaluateTurn
    \/ FinalizeJudgment

SpecJudge == InitJudge /\ [][NextJudge]_vars

(***************************************************************************)
(* The judge called with a ui: after self.scores.append(score), still      *)
(* inside the try, evaluate_turn calls _display_turn_score                 *)
(* (_display_round_score), whose ', '.join(score.strengths) raises         *)
(* TypeError when the model wrote null for the list.                       *)
(***************************************************************************)
display_raises(evaluation_data) == ~evaluation_data.listed

\* what the judge model answers in the runs with a ui
SinkResponses ==
    { [raises |-> TRUE, content |-> <<>>],
      [raises |-> FALSE, content |-> <<"not json">>],
      [raises |-> FALSE, content |-> <<"text", "{", "obj51", "}", "text">>],
      [raises |-> FALSE,
       content |-> <<"text", "{", "obj_null_lists", "}", "text">>] }

\* evaluate_turn(..., ui=sink)
evaluate_turn_with(turn_number, speaker, response, sink) ==
    LET headless == evaluate_turn(turn_number, speaker, response)
    IN  IF judge_model # "ok" \/ response.raises \/ ~sink
        THEN headless
        ELSE LET evaluation_data ==
                     parse_evaluation_response(judge_kind, response.content)
             IN  IF evaluation_data.numeric /\ display_raises(evaluation_data)
                 THEN \* the score is stored, then except Exception
                      [returned |-> create_fallback_score(turn_number, speaker),
                       scores |-> headless.scores]
                 ELSE headless

EvaluateTurnWithUI ==
    /\ pc = "judge"
    /\ judgment = NoJudgment
    /\ eval_calls < MaxEvals
    /\ \E speaker \in Speakers(judge_kind), response \in SinkResponses :
         LET result == evaluate_turn_with(eval_calls + 1, speaker, response, ui)
         IN  /\ scores' = result.scores
             /\ last_returned' = result.returned
             /\ last_response' = response
    /\ eval_calls' = eval_calls + 1
    /\ UNCHANGED <<judge_kind, judge_model, final_judgment, judgment, ui>>
    /\ UNCHANGED outsideJudge

\* a judge and the ui argument its caller passes, or None
InitSink ==
    /\ LoopIdle
    /\ YouTubeIdle
    /\ BattleIdle
    /\ CallIdle
    /\ judge_kind \in {"debate", "rap"}
    /\ judge_model \in {"ok", "ValueError"}
    /\ scores = <<>>
    /\ final_judgment = NoJudgment
    /\ judgment = NoJudgment
    /\ last_returned = NoScore
    /\ last_response = NoResponse
    /\ eval_calls = 0
    /\ ui \in BOOLEAN

NextSink ==
    \/ EvaluateTurnWithUI
    \/ FinalizeJudgment

SpecSink == InitSink /\ [][NextSink]_vars

(***************************************************************************)
(* The totals of finalize_judgment, for the labels a caller can pass:      *)
(* evaluate_turn takes any string as speaker, RapBattleJudge gets the two  *)
(* rappers' names from the caller, who may pick the same rapper twice.     *)
(***************************************************************************)
\* the registry names of the rappers the battles of the model pick from
RapperNames == {"Eminem", "Nas"}

\* the speaker / rapper_name arguments of evaluate_turn / evaluate_round
Labels(kind) ==
    IF kind = "debate" THEN {"progressive", "conservative", "moderator"}
    ELSE RapperNames

\* what the judge model does in these runs
LabelResponses ==
    { [raises |-> TRUE, content |-> <<>>],
      [raises |-> FALSE, content |-> <<"text", "{", "obj48", "}", "text">>],
      [raises |-> FALSE, content |-> <<"text", "{", "obj51", "}", "text">>] }

\* the two totals: sum(s.total_score for s in self.scores if s.speaker == ...)
finalize_totals(collection, name_A, name_B) ==
    [fn |-> "finalize_judgment",
     total_A |-> side_total(collection, name_A),
     total_B |-> side_total(collection, name_B)]

EvaluateLabelled ==
    /\ fn_call.fn = "finalize_judgment"
    /\ fn_result = NoCall
    /\ eval_calls < MaxEvals
    /\ \E speaker \in Labels(judge_kind), response \in LabelResponses :
         LET result == evaluate_turn(eval_calls + 1, speaker, response)
         IN  /\ scores' = result.scores
             /\ last_returned' = result.returned
             /\ last_response' = response
    /\ eval_calls' = eval_calls + 1
    /\ UNCHANGED <<judge_kind, judge_model, final_judgment, judgment, ui>>
    /\ UNCHANGED outsideJudge

FinalizeTotals ==
    /\ fn_call.fn = "finalize_judgment"
    /\ fn_result = NoCall
    /\ scores # <<>>
    /\ fn_result' = finalize_totals(scores, fn_call.name_A, fn_call.name_B)
    /\ UNCHANGED <<fn_call, problematic_params, loopVars, judgeVars, ytVars,
                   battleVars>>

InitLabels ==
    /\ LoopIdle
    /\ YouTubeIdle
    /\ BattleIdle
    /\ judge_kind \in {"debate", "rap"}
    /\ judge_model = "ok"
    /\ scores = <<>>
    /\ final_judgment = NoJudgment
    /\ judgment = NoJudgment
    /\ last_returned = NoScore
    /\ last_response = NoResponse
    /\ eval_calls = 0
    /\ ui = FALSE
    /\ fn_result = NoCall
    /\ problematic_params = PROBLEMATIC_PARAMS
    /\ IF judge_kind = "debate"
       THEN fn_call = [fn |-> "finalize_judgment", name_A |-> "progressive",
                       name_B |-> "conservative"]
       ELSE \E rapper1_name \in RapperNames, rapper2_name \in RapperNames :
              fn_call = [fn |-> "finalize_judgment", name_A |-> rapper1_name,
                         name_B |-> rapper2_name]

NextLabels ==
    \/ EvaluateLabelled
    \/ FinalizeTotals

SpecLabels == InitLabels /\ [][NextLabels]_vars

(***************************************************************************)
(* The YouTube workflow: run_youtube_automation drives one                 *)
(* BaseYouTubeAgent.stream_response per workflow step.                     *)
(***************************************************************************)
\* the order in which run_youtube_automation fills the agents dict
AgentOrder == <<"competitor_analyst", "researcher", "writer", "designer", "analyst">>

\* list(agents.keys())[0]
first_agent(agents) ==
    LET i == CHOOSE i \in 1..Len(AgentOrder) :
                 /\ AgentOrder[i] \in agents
                 /\ \A j \in 1..(i - 1) : AgentOrder[j] \notin agents
    IN  AgentOrder[i]

Step(agent, phase) == [agent |-> agent, phase |-> phase]

\* the steps run_youtube_automation builds for the selected agents
workflow_steps_of(agents) ==
    (IF "competitor_analyst" \in agents
     THEN <<Step("competitor_analyst", "competitor_analysis")>> ELSE <<>>)
    \o (IF "researcher" \in agents
        THEN <<Step("researcher", "research")>> ELSE <<>>)
    \o (IF "analyst" \in agents THEN <<Step("analyst", "analysis")>> ELSE <<>>)
    \o (IF "writer" \in agents
        THEN <<Step("writer", "content_creation")>> ELSE <<>>)
    \o (IF "designer" \in agents
        THEN <<Step("designer", "thumbnail")>> ELSE <<>>)
    \o (IF "researcher" \in agents
        THEN <<Step("researcher", "optimization")>> ELSE <<>>)
    \o (IF "analyst" \in agents THEN <<Step("analyst", "calendar")>> ELSE <<>>)
    \o (IF agents # {}
        THEN <<Step(first_agent(agents), "final_recommendations")>> ELSE <<>>)

\* the selections of agents the model runs
AgentSelections ==
    { {}, {"researcher", "analyst"}, {"competitor_analyst", "researcher"} }

\* _research_phase, _analysis_phase, ...: the ChatState handed to the agent
phase_state(phase, transcript) ==
    IF phase \in {"competitor_analysis", "research"}
    THEN [messages |-> <<HumanMessage(<<"prompt", phase>>)>>,
          current_speaker |-> IF phase = "research" THEN "researcher"
                              ELSE "competitor_analyst",
          conversation_count |-> 0,
          max_turns |-> 1]
    ELSE [messages |-> Append(transcript, HumanMessage(<<"prompt", phase>>)),
          current_speaker |->
              IF phase \in {"analysis", "calendar"} THEN "analyst"
              ELSE IF phase = "content_creation" THEN "writer"
              ELSE IF phase = "thumbnail" THEN "designer"
              ELSE "researcher",
          conversation_count |-> Len(transcript) \div 2,
          max_turns |-> 1]

yt_continue_text ==
    <<"Please respond based on your specialized YouTube automation expertise.">>

\* BaseYouTubeAgent.stream_response: messages = state["messages"].copy() ...
yt_prepare_messages(msgs, persona) ==
    IF msgs # <<>> /\ msgs[1].type = "human"
    THEN IF Len(msgs) = 1
         THEN <<HumanMessage(persona \o msgs[1].content)>>
         ELSE <<HumanMessage(persona \o yt_continue_text)>> \o msgs
    ELSE msgs

\* the final_state a YouTube agent yields
yt_final_state(msgs) ==
    [messages |-> msgs,
     current_speaker |-> "system",
     conversation_count |-> state.conversation_count + 1,
     max_turns |-> state.max_turns]

\* mutant: the filter keeps the requests that have no id
yt_keeps_with_name(tool_call) ==
    /\ tool_call.shape = "dict"
    /\ tool_call.name # Missing

\* the filter loop keeps a request: a dict with a name and an id
yt_keeps(tool_call) ==
    /\ tool_call.shape = "dict"
    /\ tool_call.name # Missing
    /\ tool_call.id # Missing

\* cleaned_call: name, args without the problematic parameters, id
cleaned_call(tool_call) ==
    ToolCall("dict", tool_call.name, tool_call.args \ PROBLEMATIC_PARAMS,
             tool_call.id)

cleaned_calls(calls) == [k \in 1..Len(calls) |-> cleaned_call(calls[k])]

\* ToolsRegistry._register_default_tools of agentic.tools
yt_tool_map ==
    {"search_web", "search_wikipedia", "youtube_channel_analyzer",
     "youtube_trend_analyzer", "offline_competitor_analysis",
     "strategy_generator", "crawl4ai_competitor_analysis"}

\* BaseYouTubeAgent.execute_tool_call: the content of the tool message.
\* outcome is what tool.invoke does when it is reached: "ok", or "raise" for
\* an exception that execute_tool_call turns into an error text
yt_tool_result(tool_call, outcome) ==
    IF tool_call.shape = "other"
    THEN <<"Error: Invalid tool call format">>
    ELSE LET tool_name == IF tool_call.name = Missing THEN "" ELSE tool_call.name
         IN  IF tool_name = ""
             THEN <<"Error: Tool name not found in tool call">>
             ELSE IF tool_name \notin yt_tool_map
             THEN <<"Error: Tool not found. Available tools:", tool_name>>
             ELSE IF outcome = "raise"
             THEN <<"Error executing tool", tool_name, "exc">>
                  \o (IF tool_call.args \cap PROBLEMATIC_PARAMS # {}
                      THEN <<"(Filtered)">> ELSE <<>>)
             ELSE <<"result", tool_name>>

\* the note of the assistant message built without its tool calls
tool_call_note == <<"Note: Tool calls were attempted but failed due to: ", "exc">>

\* current_state of run_youtube_automation, the fields the loop works on
WorkflowState(msgs, agent, count, status) ==
    [messages |-> msgs, current_agent |-> agent, step_count |-> count,
     workflow_status |-> status, error_messages |-> <<>>]

\* the turn is over: the agent yields final_state, the loop updates
\* current_state with it and goes to the next step
YTFinishTurn(msgs) ==
    /\ state' = yt_final_state(msgs)
    /\ current_state' = [current_state EXCEPT !.messages = msgs]
    /\ step_idx' = step_idx + 1
    /\ pc' = "yt_loop"
    /\ valid_tool_calls' = <<>>
    /\ ResetLocals

\* mutant: the budget is tested one step late
budget_spent_late(st) == st.step_count > max_steps

\* if current_state["step_count"] >= max_steps: break
budget_spent(st) == st.step_count >= max_steps

\* for step_idx, (agent_name, phase_func) in enumerate(workflow_steps):
\* the phase function, then stream_response up to the creation of the model
YTBeginStep ==
    /\ pc = "yt_loop"
    /\ step_idx < Len(workflow_steps)
    /\ ~budget_spent(current_state)
    /\ turn_log' = Append(turn_log, workflow_steps[step_idx + 1].agent)
    /\ exec_log' = <<>>
    /\ accumulated_content' = <<>>
    /\ tool_calls' = <<>>
    /\ new_messages' = <<>>
    /\ tool_idx' = 0
    /\ final_accumulated' = <<>>
    /\ chunks_seen' = 0
    /\ valid_tool_calls' = <<>>
    /\ LET step == workflow_steps[step_idx + 1]
           phase == phase_state(step.phase, current_state.messages)
           entered == [current_state EXCEPT !.current_agent = step.agent,
                                            !.step_count = step_idx + 1]
       IN  /\ turn_hist' = [start |-> Len(phase.messages), calls |-> <<>>,
                            tools |-> FALSE, text |-> <<>>]
           /\ \E outcome \in {"created", "ValueError", "raises"} :
                IF outcome = "created"
                THEN /\ state' = phase
                     /\ messages' =
                          yt_prepare_messages(phase.messages,
                                              persona_text(step.agent))
                     /\ current_state' = entered
                     /\ step_idx' = step_idx
                     /\ pc' = "yt_stream"
                ELSE IF outcome = "ValueError"
                THEN \* except ValueError: yield the error state and return
                     /\ state' = [messages |->
                                      Append(phase.messages,
                                             AIMessage(<<"Error: ", "exc">>, <<>>)),
                                  current_speaker |-> "system",
                                  conversation_count |->
                                      phase.conversation_count + 1,
                                  max_turns |-> phase.max_turns]
                     /\ messages' = <<>>
                     /\ current_state' =
                          [entered EXCEPT !.messages = state'.messages]
                     /\ step_idx' = step_idx + 1
                     /\ pc' = "yt_loop"
                ELSE \* any other exception of the step: except Exception
                     /\ state' = state
                     /\ messages' = <<>>
                     /\ current_state' = entered
                     /\ step_idx' = step_idx
                     /\ pc' = "yt_except"
    /\ UNCHANGED <<driver, with_tools, max_turns, tool_env, calls_emitted,
                   workflow_steps, max_steps>>
    /\ UNCHANGED outsideYouTube

\* except Exception as e: the status, the text of the exception, and the
\* final yield
YTExcept ==
    /\ pc = "yt_except"
    /\ current_state' =
         [current_state EXCEPT !.workflow_status = "error",
                               !.error_messages = Append(@, <<"exc">>)]
    /\ pc' = "yt_done"
    /\ UNCHANGED <<driver, with_tools, max_turns, tool_env, state, messages,
                   accumulated_content, tool_calls, new_messages, tool_idx,
                   final_accumulated, chunks_seen, calls_emitted, turn_log,
                   turn_hist, exec_log, workflow_steps, step_idx, max_steps,
                   valid_tool_calls>>
    /\ UNCHANGED outsideYouTube

\* the steps are used up, or step_count >= max_steps: break
YTComplete ==
    /\ pc = "yt_loop"
    /\ \/ step_idx >= Len(workflow_steps)
       \/ budget_spent(current_state)
    /\ current_state' = [current_state EXCEPT !.workflow_status = "completed"]
    /\ pc' = "yt_done"
    /\ UNCHANGED <<driver, with_tools, max_turns, tool_env, state, messages,
                   accumulated_content, tool_calls, new_messages, tool_idx,
                   final_accumulated, chunks_seen, calls_emitted, turn_log,
                   turn_hist, exec_log, workflow_steps, step_idx, max_steps,
                   valid_tool_calls>>
    /\ UNCHANGED outsideYouTube

\* for chunk in model.stream(messages): a chunk with content
YTStreamText ==
    /\ pc = "yt_stream"
    /\ chunks_seen < MaxChunks
    /\ chunks_seen' = chunks_seen + 1
    /\ accumulated_content' = accumulate(accumulated_content, <<"txt">>)
    /\ UNCHANGED <<driver, with_tools, max_turns, tool_env, state, pc, messages,
                   tool_calls, new_messages, tool_idx, final_accumulated,
                   calls_emitted, turn_log, turn_hist, exec_log>>
    /\ UNCHANGED <<ytVars, outsideYouTube>>

\* a chunk without content that carries tool calls
YTStreamToolCalls ==
    /\ pc = "yt_stream"
    /\ chunks_seen < MaxChunks
    /\ calls_emitted < MaxToolChunks
    /\ \E batch \in Batches : tool_calls' = tool_calls \o batch
    /\ chunks_seen' = chunks_seen + 1
    /\ calls_emitted' = calls_emitted + 1
    /\ UNCHANGED <<driver, with_tools, max_turns, tool_env, state, pc, messages,
                   accumulated_content, new_messages, tool_idx,
                   final_accumulated, turn_log, turn_hist, exec_log>>
    /\ UNCHANGED <<ytVars, outsideYouTube>>

\* what follows the first stream: the filter loop and the assistant message,
\* built with the cleaned calls or, when AIMessage raises, without them
YTAfterStream(acc) ==
    /\ turn_hist' = [turn_hist EXCEPT !.calls = tool_calls,
                                      !.tools = (tool_calls # <<>> /\ with_tools),
                                      !.text = acc]
    /\ IF tool_calls # <<>> /\ with_tools
       THEN LET valid == SelectSeq(tool_calls, yt_keeps)
            IN  /\ \E built \in BOOLEAN :
                     new_messages' =
                        Append(state.messages,
                               IF built
                               THEN AIMessage(acc, cleaned_calls(valid))
                               ELSE AIMessage(acc \o tool_call_note, <<>>))
                /\ valid_tool_calls' = valid
                /\ accumulated_content' = acc
                /\ tool_idx' = 1
                /\ pc' = IF valid = <<>> THEN "yt_final" ELSE "yt_tools"
                /\ UNCHANGED <<state, messages, tool_calls, final_accumulated,
                               chunks_seen, current_state, step_idx>>
       ELSE YTFinishTurn(Append(state.messages, AIMessage(acc, <<>>)))

YTStreamEnd ==
    /\ pc = "yt_stream"
    /\ YTAfterStream(accumulated_content)
    /\ UNCHANGED <<driver, with_tools, max_turns, tool_env, calls_emitted,
                   turn_log, exec_log, workflow_steps, max_steps>>
    /\ UNCHANGED outsideYouTube

\* the stream raises: except Exception
YTStreamRaise ==
    /\ pc = "yt_stream"
    /\ YTAfterStream(stream_error_content(accumulated_content))
    /\ UNCHANGED <<driver, with_tools, max_turns, tool_env, calls_emitted,
                   turn_log, exec_log, workflow_steps, max_steps>>
    /\ UNCHANGED outsideYouTube

\* for tool_call in valid_tool_calls: one iteration
YTExecTool ==
    /\ pc = "yt_tools"
    /\ tool_idx <= Len(valid_tool_calls)
    /\ LET tool_call == valid_tool_calls[tool_idx]
       IN  /\ new_messages' =
                Append(new_messages,
                       ToolMessage(yt_tool_result(tool_call, tool_env),
                                   tool_id_of(tool_call, new_messages)))
           /\ exec_log' = Append(exec_log, tool_call)
    /\ IF tool_idx = Len(valid_tool_calls)
       THEN /\ pc' = "yt_final"
            /\ tool_idx' = tool_idx
       ELSE /\ tool_idx' = tool_idx + 1
            /\ pc' = pc
    /\ UNCHANGED <<driver, with_tools, max_turns, tool_env, state, messages,
                   accumulated_content, tool_calls, final_accumulated,
                   chunks_seen, calls_emitted, turn_log, turn_hist>>
    /\ UNCHANGED <<ytVars, outsideYouTube>>

\* for chunk in model.stream(new_messages): the follow-up stream
YTFinalText ==
    /\ pc = "yt_final"
    /\ chunks_seen < MaxChunks
    /\ chunks_seen' = chunks_seen + 1
    /\ final_accumulated' = accumulate(final_accumulated, <<"txt">>)
    /\ UNCHANGED <<driver, with_tools, max_turns, tool_env, state, pc, messages,
                   accumulated_content, tool_calls, new_messages, tool_idx,
                   calls_emitted, turn_log, turn_hist, exec_log>>
    /\ UNCHANGED <<ytVars, outsideYouTube>>

YTFinalEnd ==
    /\ pc = "yt_final"
    /\ YTFinishTurn(Append(new_messages, AIMessage(final_accumulated, <<>>)))
    /\ UNCHANGED <<driver, with_tools, max_turns, tool_env, calls_emitted,
                   turn_log, turn_hist, exec_log, workflow_steps, max_steps>>
    /\ UNCHANGED outsideYouTube

\* the follow-up stream raises: except Exception
YTFinalRaise ==
    /\ pc = "yt_final"
    /\ YTFinishTurn(Append(new_messages,
                           AIMessage(final_error_content(final_accumulated),
                                     <<>>)))
    /\ UNCHANGED <<driver, with_tools, max_turns, tool_env, calls_emitted,
                   turn_log, turn_hist, exec_log, workflow_steps, max_steps>>
    /\ UNCHANGED outsideYouTube

\* initial_state of run_youtube_automation
InitYouTube ==
    /\ JudgeIdle
    /\ BattleIdle
    /\ CallIdle
    /\ driver = "youtube"
    /\ with_tools \in BOOLEAN
    /\ max_turns = 1
    /\ max_steps \in 0..MaxSteps
    /\ \E agents \in AgentSelections : workflow_steps = workflow_steps_of(agents)
    /\ current_state = WorkflowState(<<>>, "researcher", 0, "running")
    /\ step_idx = 0
    /\ valid_tool_calls = <<>>
    /\ state = [messages |-> <<>>, current_speaker |-> "system",
                conversation_count |-> 0, max_turns |-> 1]
    /\ pc = "yt_loop"
    /\ messages = <<>>
    /\ accumulated_content = <<>>
    /\ tool_calls = <<>>
    /\ new_messages = <<>>
    /\ tool_idx = 0
    /\ final_accumulated = <<>>
    /\ chunks_seen = 0
    /\ calls_emitted = 0
    /\ tool_env \in {"ok", "raise"}
    /\ turn_log = <<>>
    /\ turn_hist = [start |-> 0, calls |-> <<>>, tools |-> FALSE, text |-> <<>>]
    /\ exec_log = <<>>

NextYouTube ==
    \/ YTBeginStep
    \/ YTStreamText
    \/ YTStreamToolCalls
    \/ YTStreamEnd
    \/ YTStreamRaise
    \/ YTExecTool
    \/ YTFinalText
    \/ YTFinalEnd
    \/ YTFinalRaise
    \/ YTExcept
    \/ YTComplete

SpecYouTube == InitYouTube /\ [][NextYouTube]_vars

(***************************************************************************)
(* The workflow loop by itself: a step of run_youtube_automation with the  *)
(* agent's stream_response taken as one step, which yields its final       *)
(* state, yields the error state of a failed model creation, or raises.    *)
(***************************************************************************)
\* what the agent's turn leaves as its last message
StepTexts ==
    { <<"text">>, <<"Error occurred during response generation: ", "exc">> }

YTRunStep ==
    /\ pc = "yt_loop"
    /\ step_idx < Len(workflow_steps)
    /\ ~budget_spent(current_state)
    /\ turn_log' = Append(turn_log, workflow_steps[step_idx + 1].agent)
    /\ LET step == workflow_steps[step_idx + 1]
           phase == phase_state(step.phase, current_state.messages)
           entered == [current_state EXCEPT !.current_agent = step.agent,
                                            !.step_count = step_idx + 1]
       IN  \E outcome \in {"returned", "ValueError", "raises"} :
             IF outcome = "raises"
             THEN \* the phase function or the stream raises: except Exception
                  /\ state' = state
                  /\ current_state' = entered
                  /\ step_idx' = step_idx
                  /\ pc' = "yt_except"
             ELSE /\ \E content \in (IF outcome = "returned" THEN StepTexts
                                      ELSE {<<"Error: ", "exc">>}) :
                       state' = [messages |->
                                     Append(phase.messages,
                                            AIMessage(content, <<>>)),
                                 current_speaker |-> "system",
                                 conversation_count |->
                                     phase.conversation_count + 1,
                                 max_turns |-> phase.max_turns]
                  /\ current_state' =
                       [entered EXCEPT !.messages = state'.messages]
                  /\ step_idx' = step_idx + 1
                  /\ pc' = "yt_loop"
    /\ UNCHANGED <<driver, with_tools, max_turns, tool_env, messages,
                   accumulated_content, tool_calls, new_messages, tool_idx,
                   final_accumulated, chunks_seen, calls_emitted, turn_hist,
                   exec_log, workflow_steps, max_steps, valid_tool_calls>>
    /\ UNCHANGED outsideYouTube

NextWorkflow ==
    \/ YTRunStep
    \/ YTExcept
    \/ YTComplete

\* the generator is run to its end by the caller's for loop
SpecWorkflow == InitYouTube /\ [][NextWorkflow]_vars /\ WF_vars(NextWorkflow)

(***************************************************************************)
(* The turns with tools of both executors: the debate loop of graph.py     *)
(* with tools enabled, and the YouTube workflow with tools enabled.        *)
(***************************************************************************)
InitTools ==
    /\ \/ (Init /\ driver = "graph")
       \/ InitYouTube
    /\ with_tools

NextTools ==
    \/ Next
    \/ NextYouTube

SpecTools == InitTools /\ [][NextTools]_vars

(***************************************************************************)
(* ToolArgumentFilter.  An argument mapping is modelled by its set of      *)
(* keys: the filter selects keys and passes the values through.            *)
(***************************************************************************)
TOOL_SPECIFIC_PARAMS ==
    [search_web |-> {"query", "search_query", "q", "input", "text"},
     search_wikipedia |-> {"query", "search_query", "q", "input", "text"},
     crawl4ai_competitor_analysis |->
         {"competitor_urls", "niche", "extract_social_media",
          "extract_content_themes"},
     offline_competitor_analysis |-> {"competitor_urls", "niche"},
     strategy_generator |-> {"niche", "target_audience", "content_goals"}]

COMMON_PARAMS ==
    {"query", "input", "text", "question", "search_query", "q",
     "competitor_urls", "niche", "target_audience", "content_goals",
     "extract_social_media", "extract_content_themes", "max_results",
     "limit", "url", "urls", "data"}

\* a tool: its name and the fields of its args_schema ({} when it has none)
Tool(name, fields) == [name |-> name, fields |-> fields]

search_web_tool == Tool("search_web", {"query"})
strategy_generator_tool ==
    Tool("strategy_generator", {"niche", "target_audience", "content_goals"})
\* a tool without args_schema
plain_tool == Tool("search_web", {})
\* a tool registered with add_custom_tool whose schema has a field "count"
paged_search_tool == Tool("paged_search", {"query", "count"})

Tools == {search_web_tool, strategy_generator_tool, plain_tool, paged_search_tool}

\* the keys the argument mappings of the model are made of
ArgKeys == {"query", "niche", "index", "count", "q", "user_id", "verbose"}

\* _get_expected_parameters
get_expected_parameters(tool) == tool.fields

\* _is_reasonable_parameter over ArgKeys: at least two characters ("q" has
\* one), no "_id" suffix, letters and underscores only, and none of temp,
\* tmp, debug, test
is_reasonable_parameter(param_name) ==
    /\ param_name # "q"
    /\ param_name # "user_id"
    /\ param_name \notin {"temp", "tmp", "debug", "test"}

\* ToolArgumentFilter.filter_arguments for a dict tool_args, deny being the
\* value of cls.PROBLEMATIC_PARAMS when it is called
filter_with(deny, tool, tool_name, tool_args) ==
    LET filtered_args == tool_args \ deny
        expected_params == get_expected_parameters(tool)
        allowed_params ==
            IF tool_name \in DOMAIN TOOL_SPECIFIC_PARAMS
            THEN TOOL_SPECIFIC_PARAMS[tool_name] ELSE COMMON_PARAMS
        clean_args ==
            IF expected_params # {}
            THEN filtered_args \cap expected_params
            ELSE filtered_args \cap allowed_params
    IN  IF clean_args = {} /\ filtered_args # {}
        THEN {k \in filtered_args : is_reasonable_parameter(k)}
        ELSE clean_args

\* the call as the program makes it, reading the class attribute
filter_arguments(tool, tool_name, tool_args) ==
    filter_with(problematic_params, tool, tool_name, tool_args)

(***************************************************************************)
(* The tool dispatcher called on its own: execute_tool_call of             *)
(* BaseStreamingAgent and of BaseYouTubeAgent.  The result says whether    *)
(* the call returned or raised, with what, and whether tool.invoke was     *)
(* reached.  first is what tool.invoke does when first called, retry what  *)
(* it does when called again with one essential argument.                  *)
(***************************************************************************)
InvokeOutcomes == {"ok", "TypeError_keyword", "TypeError", "Exception"}

Returned(text, invoked) ==
    [fn |-> "execute_tool_call", kind |-> "returned", text |-> text,
     invoked |-> invoked]

Raised(exc, invoked) ==
    [fn |-> "execute_tool_call", kind |-> "raised", text |-> <<exc>>,
     invoked |-> invoked]

object_call == ToolCall("object", "search_web", {"query"}, "call_6")
strategy_call == ToolCall("dict", "strategy_generator", {"niche", "index"}, "call_7")
verbose_call == ToolCall("dict", "search_web", {"verbose"}, "call_8")

\* the requests the dispatcher is called with
Requests ==
    {good_call, index_call, no_name_call, no_id_call, other_call,
     unknown_call, object_call, strategy_call, verbose_call}

\* the branches of execute_tool_call that return before the try
returns_early(tool_call, registry) ==
    \/ tool_call.shape = "other"
    \/ tool_call.name = Missing
    \/ tool_call.name \notin registry

\* BaseStreamingAgent.execute_tool_call: every exception of the try is
\* caught by except Exception
base_execute_tool_call(tool_call, first) ==
    IF returns_early(tool_call, tool_map)
    THEN Returned(execute_tool_call(tool_call, "ok"), FALSE)
    ELSE Returned(execute_tool_call(tool_call,
                                    IF first = "ok" THEN "ok" ELSE "raise"),
                  TRUE)

essential_keys ==
    {"query", "search_query", "competitor_urls", "niche", "input", "text"}

\* the tool of the registry a request names, among those the requests name
registered_tool(name) ==
    CHOOSE tool \in {search_web_tool, strategy_generator_tool} : tool.name = name

\* Strategy 1 of _invoke_tool_safely invokes the tool a second time, with
\* the same single argument, when the first invocation raises TypeError
\* (the search tools are invoked once, with the query)
invokes_again(tool_name, clean_args, first) ==
    /\ Cardinality(clean_args) = 1
    /\ ~(/\ tool_name \in {"search_web", "search_wikipedia"}
         /\ clean_args \subseteq {"query", "search_query", "q"})
    /\ first \in {"TypeError_keyword", "TypeError"}

\* the tool.invoke calls of _invoke_tool_safely: Strategy 1, then one per
\* essential key of the original arguments until one of them returns
invoke_attempts(tool_name, clean_args, original_args, first, retry) ==
    LET strategy_1 == IF invokes_again(tool_name, clean_args, first)
                      THEN 2 ELSE 1
        essential == original_args \cap essential_keys
    IN  IF first = "ok" \/ (invokes_again(tool_name, clean_args, first)
                            /\ retry = "ok")
        THEN strategy_1
        ELSE IF retry = "ok"
        THEN strategy_1 + (IF essential = {} THEN 0 ELSE 1)
        ELSE strategy_1 + Cardinality(essential)

\* mutant: the last strategy re-raises the exception of the tool as it is
invoke_tool_reraising(tool_name, clean_args, original_args, first, retry) ==
    IF first = "ok" \/ (invokes_again(tool_name, clean_args, first)
                        /\ retry = "ok")
    THEN [kind |-> "returned", exc |-> "none"]
    ELSE IF original_args \cap essential_keys # {} /\ retry = "ok"
    THEN [kind |-> "returned", exc |-> "none"]
    ELSE [kind |-> "raised", exc |-> first]

\* _invoke_tool_safely: the tool with the cleaned arguments, then with one
\* essential argument of the original ones, then raise Exception(...)
invoke_tool_safely(tool_name, clean_args, original_args, first, retry) ==
    IF first = "ok" \/ (invokes_again(tool_name, clean_args, first)
                        /\ retry = "ok")
    THEN [kind |-> "returned", exc |-> "none"]
    ELSE IF original_args \cap essential_keys # {} /\ retry = "ok"
    THEN [kind |-> "returned", exc |-> "none"]
    ELSE [kind |-> "raised", exc |-> "Exception"]

\* BaseYouTubeAgent.execute_tool_call
yt_execute_tool_call(tool_call, first, retry) ==
    IF returns_early(tool_call, yt_tool_map)
    THEN Returned(yt_tool_result(tool_call, "ok"), FALSE)
    ELSE LET clean_args == filter_arguments(registered_tool(tool_call.name),
                                            tool_call.name, tool_call.args)
             invocation == invoke_tool_safely(tool_call.name, clean_args,
                                              tool_call.args, first, retry)
         IN  IF invocation.kind = "returned"
             THEN Returned(yt_tool_result(tool_call, "ok"), TRUE)
             ELSE IF invocation.exc = "TypeError_keyword"
             THEN Returned(<<"Tool execution failed: unexpected parameter",
                             tool_call.name>>, TRUE)
             ELSE IF invocation.exc = "TypeError"
             THEN Raised("TypeError", TRUE)
             ELSE Returned(yt_tool_result(tool_call, "raise"), TRUE)

\* the call: agent.execute_tool_call(tool_call)
ExecuteToolCall ==
    /\ fn_call.fn = "execute_tool_call"
    /\ fn_result = NoCall
    /\ fn_result' =
         IF fn_call.executor = "base"
         THEN base_execute_tool_call(fn_call.tool_call, fn_call.first)
         ELSE yt_execute_tool_call(fn_call.tool_call, fn_call.first,
                                   fn_call.retry)
    /\ UNCHANGED <<fn_call, problematic_params, loopVars, judgeVars, ytVars,
                   battleVars>>

\* the call: ToolArgumentFilter.filter_arguments(tool, tool.name, tool_args),
\* and filter_arguments again on what it returned
FilterArguments ==
    /\ fn_call.fn = "filter_arguments"
    /\ fn_result = NoCall
    /\ LET once == filter_arguments(fn_call.tool, fn_call.tool.name,
                                    fn_call.tool_args)
       IN  fn_result' =
              [fn |-> "filter_arguments", value |-> once,
               again |-> filter_arguments(fn_call.tool, fn_call.tool.name,
                                          once)]
    /\ UNCHANGED <<fn_call, problematic_params, loopVars, judgeVars, ytVars,
                   battleVars>>

InitCalls ==
    /\ LoopIdle
    /\ JudgeIdle
    /\ YouTubeIdle
    /\ BattleIdle
    /\ fn_result = NoCall
    /\ problematic_params = PROBLEMATIC_PARAMS
    /\ \/ \E executor \in {"base", "youtube"}, tool_call \in Requests,
            first \in InvokeOutcomes, retry \in InvokeOutcomes :
              fn_call = [fn |-> "execute_tool_call", executor |-> executor,
                         tool_call |-> tool_call, first |-> first,
                         retry |-> retry]
       \/ \E tool \in Tools, tool_args \in SUBSET ArgKeys :
              fn_call = [fn |-> "filter_arguments", tool |-> tool,
                         tool_args |-> tool_args]

NextCalls ==
    \/ ExecuteToolCall
    \/ FilterArguments

SpecCalls == InitCalls /\ [][NextCalls]_vars

(***************************************************************************)
(* create_safe_tool_wrapper: the safe_run that replaces tool._run, and     *)
(* _invoke_tool_safely, each called on its own.  first is what the tool's  *)
(* callable does when first called, retry what it does on every later      *)
(* call; rejected is the keyword a TypeError of the callable names.        *)
(***************************************************************************)
\* essential_keys of _try_essential_parameters
wrapper_essential_keys ==
    {"query", "search_query", "q", "input", "text", "question",
     "competitor_urls", "niche", "target_audience", "content_goals",
     "max_videos", "max_results", "limit", "url", "urls"}

\* the keyword arguments safe_run is called with
Kwargs == SUBSET {"query", "niche", "verbose"}

\* _try_essential_parameters: the calls of run_method it makes, one per
\* essential key of kwargs and then one per key outside PROBLEMATIC_PARAMS,
\* until one of them returns
try_essential_parameters(kwargs, retry, deny) ==
    LET essential == kwargs \cap wrapper_essential_keys
        others == kwargs \ deny
    IN  IF retry = "ok"
        THEN IF essential \cup others = {} THEN 0 ELSE 1
        ELSE Cardinality(essential) + Cardinality(others)

\* ToolArgumentFilter.add_problematic_params: cls.PROBLEMATIC_PARAMS.update
add_problematic_params(deny, params) == deny \cup params

\* safe_run: what it does, how often it calls original_run, and what it
\* leaves in cls.PROBLEMATIC_PARAMS
safe_run(kwargs, first, retry, rejected, deny) ==
    IF first = "ok"
    THEN [kind |-> "returned", invocations |-> 1, deny |-> deny]
    ELSE IF first = "TypeError_keyword"
    THEN LET updated == add_problematic_params(deny, {rejected})
         IN  IF retry = "ok"
             THEN [kind |-> "returned", invocations |-> 2, deny |-> updated]
             ELSE [kind |-> "returned",
                   invocations |->
                       2 + try_essential_parameters(kwargs, retry, updated),
                   deny |-> updated]
    ELSE IF first = "TypeError"
    THEN \* a TypeError of another kind: raise
         [kind |-> "raised", invocations |-> 1, deny |-> deny]
    ELSE [kind |-> "returned",
          invocations |-> 1 + try_essential_parameters(kwargs, retry, deny),
          deny |-> deny]

\* the call: tool._run(**kwargs) of a wrapped tool
SafeRun ==
    /\ fn_call.fn = "safe_run"
    /\ fn_result = NoCall
    /\ LET result == safe_run(fn_call.kwargs, fn_call.first, fn_call.retry,
                              fn_call.rejected, problematic_params)
       IN  /\ fn_result' = [fn |-> "safe_run", kind |-> result.kind,
                            invocations |-> result.invocations]
           /\ problematic_params' = result.deny
    /\ UNCHANGED <<fn_call, loopVars, judgeVars, ytVars, battleVars>>

\* the call: self._invoke_tool_safely(tool, tool_name, clean_args, tool_args)
InvokeToolSafely ==
    /\ fn_call.fn = "invoke_tool_safely"
    /\ fn_result = NoCall
    /\ LET clean_args == filter_arguments(fn_call.tool, fn_call.tool.name,
                                          fn_call.kwargs)
       IN  fn_result' =
              [fn |-> "invoke_tool_safely",
               kind |-> invoke_tool_safely(fn_call.tool.name, clean_args,
                                           fn_call.kwargs, fn_call.first,
                                           fn_call.retry).kind,
               invocations |-> invoke_attempts(fn_call.tool.name, clean_args,
                                               fn_call.kwargs, fn_call.first,
                                               fn_call.retry)]
    /\ UNCHANGED <<fn_call, problematic_params, loopVars, judgeVars, ytVars,
                   battleVars>>

\* the calls of filter_arguments the model makes after a wrapped tool ran
FilterCalls ==
    { [fn |-> "filter_arguments", tool |-> tool, tool_args |-> tool_args] :
          tool \in Tools, tool_args \in Kwargs }

\* after a wrapped tool has run, the arguments of a later request are
\* filtered
NextRequest ==
    /\ fn_result # NoCall
    /\ fn_result.fn = "safe_run"
    /\ fn_call' \in FilterCalls
    /\ fn_result' = NoCall
    /\ UNCHANGED <<problematic_params, loopVars, judgeVars, ytVars, battleVars>>

InitWrapper ==
    /\ LoopIdle
    /\ JudgeIdle
    /\ YouTubeIdle
    /\ BattleIdle
    /\ fn_result = NoCall
    /\ problematic_params = PROBLEMATIC_PARAMS
    /\ \E tool \in Tools, kwargs \in Kwargs,
          first \in InvokeOutcomes, retry \in InvokeOutcomes :
          \/ /\ first # "TypeError_keyword"
             /\ fn_call \in
                  { [fn |-> f, tool |-> tool, kwargs |-> kwargs,
                     first |-> first, retry |-> retry, rejected |-> Missing] :
                        f \in {"safe_run", "invoke_tool_safely"} }
          \/ /\ first = "TypeError_keyword"
             /\ \E rejected \in
                    {k \in (kwargs \ PROBLEMATIC_PARAMS) : k \notin tool.fields} :
                  fn_call \in
                    { [fn |-> f, tool |-> tool, kwargs |-> kwargs,
                       first |-> first, retry |-> retry,
                       rejected |-> rejected] :
                          f \in {"safe_run", "invoke_tool_safely"} }

NextWrapper ==
    \/ SafeRun
    \/ InvokeToolSafely
    \/ NextRequest
    \/ FilterArguments

SpecWrapper == InitWrapper /\ [][NextWrapper]_vars

(***************************************************************************)
(* run_rap_battle: the loop of rap_battle_graph.py, which has the judge    *)
(* score every turn.  The turn executor of the rappers, BaseRapperAgent,   *)
(* is taken as one step that appends the turn's assistant message, counts  *)
(* the turn and hands over.                                                *)
(***************************************************************************)
battle_prompt == <<"battle_prompt">>

\* what a rapper's turn leaves as its last message: a verse, or error text
Verses == { <<"verse">>, <<"Error: ", "exc">> }

other_rapper(speaker) == IF speaker = "rapper1" THEN "rapper2" ELSE "rapper1"

\* mutant: the loop stops one turn early
battle_continues_short(st) == st.conversation_count + 1 < st.max_turns

\* while state["conversation_count"] < state["max_turns"]
battle_continues(st) == st.conversation_count < st.max_turns

\* for updated_state in rapper_agent.stream_response(state, with_tools, ui)
RapperTurn ==
    /\ pc = "battle_loop"
    /\ battle_continues(state)
    /\ \E verse \in Verses :
         state' = [messages |-> Append(state.messages, AIMessage(verse, <<>>)),
                   current_speaker |-> other_rapper(state.current_speaker),
                   conversation_count |-> state.conversation_count + 1,
                   max_turns |-> state.max_turns]
    /\ turn_log' = Append(turn_log, state.current_speaker)
    /\ pc' = "battle_judge"
    /\ UNCHANGED <<driver, with_tools, max_turns, messages, accumulated_content,
                   tool_calls, new_messages, tool_idx, final_accumulated,
                   chunks_seen, calls_emitted, tool_env, turn_hist, exec_log>>
    /\ UNCHANGED <<judgeVars, ytVars, battleVars, callVars>>

\* what the judge model does when a round is evaluated: it raises, answers
\* without JSON, or answers with one of two complete objects
BattleResponses ==
    { [raises |-> TRUE, content |-> <<>>],
      [raises |-> FALSE, content |-> <<"not json">>],
      [raises |-> FALSE, content |-> <<"text", "{", "obj48", "}", "text">>],
      [raises |-> FALSE, content |-> <<"text", "{", "obj51", "}", "text">>] }

\* the rest of the loop body: the judge evaluates the turn's last message,
\* then the round counter and the speaker are updated
JudgeRound ==
    /\ pc = "battle_judge"
    /\ LET speaker == turn_log[Len(turn_log)]
           latest_message == state.messages[Len(state.messages)]
       IN  IF with_judge /\ state.messages # <<>> /\ latest_message.type = "ai"
           THEN /\ \E response \in BattleResponses :
                     LET evaluated == evaluate_turn(current_round, speaker,
                                                    response)
                     IN  /\ scores' = evaluated.scores
                         /\ last_returned' = evaluated.returned
                         /\ last_response' = response
                /\ eval_calls' = eval_calls + 1
                /\ battle_context' = Append(battle_context, speaker)
           ELSE UNCHANGED <<scores, last_returned, last_response, eval_calls,
                            battle_context>>
    /\ current_round' = IF state.current_speaker = "rapper2"
                        THEN current_round + 1 ELSE current_round
    /\ state' = [state EXCEPT
                   !.current_speaker = other_rapper(turn_log[Len(turn_log)])]
    /\ pc' = "battle_loop"
    /\ UNCHANGED <<driver, with_tools, max_turns, messages, accumulated_content,
                   tool_calls, new_messages, tool_idx, final_accumulated,
                   chunks_seen, calls_emitted, tool_env, turn_log, turn_hist,
                   exec_log>>
    /\ UNCHANGED <<judge_kind, judge_model, final_judgment, judgment, ui>>
    /\ UNCHANGED <<with_judge, finalize_calls>>
    /\ UNCHANGED <<ytVars, callVars>>

\* after the loop: if judge_agent: judge_agent.finalize_judgment(...); return
BattleReturn ==
    /\ pc = "battle_loop"
    /\ ~battle_continues(state)
    /\ IF with_judge
       THEN /\ finalize_calls' = finalize_calls + 1
            /\ IF scores = <<>>
               THEN /\ judgment' = create_default_judgment(judge_kind)
                    /\ final_judgment' = final_judgment
               ELSE /\ final_judgment' = compute_judgment(judge_kind, scores)
                    /\ judgment' = final_judgment'
       ELSE UNCHANGED <<finalize_calls, judgment, final_judgment>>
    /\ pc' = "returned"
    /\ UNCHANGED <<driver, with_tools, max_turns, state, messages,
                   accumulated_content, tool_calls, new_messages, tool_idx,
                   final_accumulated, chunks_seen, calls_emitted, tool_env,
                   turn_log, turn_hist, exec_log>>
    /\ UNCHANGED <<judge_kind, judge_model, scores, last_returned,
                   last_response, eval_calls, ui>>
    /\ UNCHANGED <<with_judge, current_round, battle_context>>
    /\ UNCHANGED <<ytVars, callVars>>

\* the state run_rap_battle builds before the loop
InitBattle ==
    /\ YouTubeIdle
    /\ CallIdle
    /\ driver = "rap"
    /\ with_tools = FALSE
    /\ \E max_rounds \in 0..MaxRounds : max_turns = max_rounds * 2
    /\ state = [messages |-> <<HumanMessage(battle_prompt)>>,
                current_speaker |-> "rapper1",
                conversation_count |-> 0,
                max_turns |-> max_turns]
    /\ pc = "battle_loop"
    /\ messages = <<>>
    /\ accumulated_content = <<>>
    /\ tool_calls = <<>>
    /\ new_messages = <<>>
    /\ tool_idx = 0
    /\ final_accumulated = <<>>
    /\ chunks_seen = 0
    /\ calls_emitted = 0
    /\ tool_env = "ok"
    /\ turn_log = <<>>
    /\ turn_hist = [start |-> 0, calls |-> <<>>, tools |-> FALSE, text |-> <<>>]
    /\ exec_log = <<>>
    /\ judge_kind = "rap"
    /\ judge_model \in {"ok", "ValueError"}
    /\ scores = <<>>
    /\ final_judgment = NoJudgment
    /\ judgment = NoJudgment
    /\ last_returned = NoScore
    /\ last_response = NoResponse
    /\ eval_calls = 0
    /\ ui = FALSE
    /\ with_judge \in BOOLEAN
    /\ current_round = 1
    /\ battle_context = <<>>
    /\ finalize_calls = 0

NextBattle ==
    \/ RapperTurn
    \/ JudgeRound
    \/ BattleReturn

SpecBattle == InitBattle /\ [][NextBattle]_vars

\* the loop is a sequential program: a step that can be taken is taken
SpecBattleFair == SpecBattle /\ WF_vars(NextBattle)

(***************************************************************************)
(* Helpers of the properties.                                              *)
(***************************************************************************)
IsPrefix(a, b) == Len(a) <= Len(b) /\ SubSeq(b, 1, Len(a)) = a

InTurn == pc \in {"stream", "tools", "final"}

HasPersona(m) == m.content # <<>> /\ m.content[1] = "persona"

IsErrorMessage(m) ==
    /\ m.type = "ai"
    /\ m.content # <<>>
    /\ m.content[1] \in {"Error: ",
                         "Error occurred during response generation: ",
                         "Error occurred during final response: "}

SomeMessage(P(_)) == \E i \in 1..Len(state.messages) : P(state.messages[i])

IsToolMessage(m) == m.type = "tool"

(***************************************************************************)
(* C1: in the loop of run_streaming_debate the turn counter stays within   *)
(* 0..max_turns, max_turns keeps the value the run was started with, and   *)
(* the loop is left only with conversation_count = max_turns.              *)
(***************************************************************************)
C1_TurnCountWithinBudget ==
    driver = "graph" =>
        /\ 0 <= state.conversation_count
        /\ state.conversation_count <= max_turns
        /\ state.max_turns = max_turns
        /\ (pc \in {"returned", "raised"} =>
               state.conversation_count = max_turns)

C1_Witness ==
    /\ driver = "graph"
    /\ pc = "returned"
    /\ max_turns >= 2
    /\ state.conversation_count = max_turns

C3_LoopReturns ==
    <>(pc = "returned" /\ state.conversation_count = max_turns)

\* the same for the loop of graph.py alone
GraphLoopReturns ==
    (driver = "graph") =>
        <>(pc = "returned" /\ state.conversation_count = max_turns)

(***************************************************************************)
(* C4: no model failure propagates out of a turn: the turn executor raises *)
(* nothing when model creation or a stream fails.                          *)
(***************************************************************************)
C4_TurnRaisesNothing == pc # "raised"

\* the same for BaseStreamingAgent.stream_response alone: a failed turn
\* appends an error message, counts, and hands over
GraphFailedTurnCounts ==
    [][(driver = "graph" /\ state' # state) =>
          /\ state'.conversation_count = state.conversation_count + 1
          /\ state'.current_speaker # state.current_speaker
          /\ state'.messages[Len(state'.messages)].type = "ai"]_vars

(***************************************************************************)
(* C5, as stated: a finished turn with tools and at least one captured     *)
(* request has appended one assistant message with the accumulated text    *)
(* and the captured calls, then one tool-result message per request in the *)
(* order received, each tagged with the identifier of its call, then       *)
(* exactly one final assistant message; no tool runs after that message.   *)
(***************************************************************************)
ToolTurnDone ==
    /\ turn_hist.tools
    /\ pc \in {"loop", "returned", "yt_loop", "yt_done"}
    /\ Len(state.messages) > turn_hist.start

\* the messages the finished turn appended to the transcript
Appended == SubSeq(state.messages, turn_hist.start + 1, Len(state.messages))

Kept(tool_call) ==
    IF driver = "youtube"
    THEN /\ tool_call.shape = "dict"
         /\ tool_call.name # Missing
         /\ tool_call.id # Missing
    ELSE tool_call.shape \in {"object", "dict"}

WithoutProblematicArgs(tool_call) ==
    [tool_call EXCEPT !.args = {a \in tool_call.args : a \notin PROBLEMATIC_PARAMS}]

GraphToolTurnSkipsOther ==
    /\ driver = "graph"
    /\ ToolTurnDone
    /\ turn_hist.calls = <<no_name_call, other_call, unknown_call>>
    /\ Len(Appended) = 4
    /\ Appended[2].tool_call_id = "call_3"
    /\ Appended[3].tool_call_id = "call_5"

(***************************************************************************)
(* C6: the transcript is append-only: on every path of a turn the message  *)
(* list before the step is a prefix of the list after it, and the persona  *)
(* text of the prompt is never stored in the transcript.                   *)
(***************************************************************************)
C6_AppendOnly ==
    [][/\ IsPrefix(state.messages, state'.messages)
       /\ \A i \in 1..Len(state'.messages) : ~HasPersona(state'.messages[i])
       /\ (pc' = "tools" => IsPrefix(state.messages, new_messages'))]_vars

C6_Witness ==
    /\ pc = "loop"
    /\ state.conversation_count >= 2
    /\ SomeMessage(IsToolMessage)
    /\ SomeMessage(IsErrorMessage)
    /\ Len(state.messages) >= 5

(***************************************************************************)
(* C7: every evaluate_turn / evaluate_round call leaves exactly one score  *)
(* in the judge's collection: after k calls len(scores) = k and the last   *)
(* entry is the score the last call returned, fallback scores included.    *)
(***************************************************************************)
C7_EveryTurnScored ==
    /\ Len(scores) = eval_calls
    /\ (eval_calls > 0 =>
           /\ scores # <<>>
           /\ scores[Len(scores)] = last_returned)

\* what the code does keep: a score it returns is either the last entry of
\* the collection or a fallback score that was not stored
StoredOrFallback ==
    last_returned # NoScore =>
        \/ (scores # <<>> /\ scores[Len(scores)] = last_returned)
        \/ last_returned.feedback = "fallback_score"

(***************************************************************************)
(* C8: finalize_judgment decides by the threshold: the winner is "tie"     *)
(* exactly when |total_A - total_B| < threshold (5 for debates, 3 for rap  *)
(* battles), otherwise the side with the strictly higher total, and the    *)
(* margin is |total_A - total_B| >= 0 in every case.                       *)
(***************************************************************************)
C8_WinnerByThreshold ==
    judgment # NoJudgment =>
        LET total_A == side_total(scores, SideA(judge_kind))
            total_B == side_total(scores, SideB(judge_kind))
            diff == IF total_A >= total_B THEN total_A - total_B
                    ELSE total_B - total_A
            threshold == IF judge_kind = "debate" THEN 5 ELSE 3
        IN  /\ judgment.total_A = total_A
            /\ judgment.total_B = total_B
            /\ (judgment.winner = "tie") <=> (diff < threshold)
            /\ (judgment.winner # "tie" =>
                   \/ (judgment.winner = SideA(judge_kind) /\ total_A > total_B)
                   \/ (judgment.winner = SideB(judge_kind) /\ total_B > total_A))
            /\ judgment.margin = diff
            /\ judgment.margin >= 0

\* a debate decided with the totals exactly the threshold apart: not a tie
C8_Witness ==
    /\ judgment # NoJudgment
    /\ judge_kind = "debate"
    /\ Len(scores) >= 2
    /\ judgment.total_A - judgment.total_B = 5
    /\ judgment.winner = "progressive"
    /\ judgment.margin = 5

(***************************************************************************)
(* C9: the total_score of every score the judge produces, from a model     *)
(* response or as a fallback, is the sum of its eight criteria; a total    *)
(* the model wrote into its JSON is not used.                              *)
(***************************************************************************)
C9_TotalIsSumOfCriteria ==
    LET SumOfEight(c) == c[1] + c[2] + c[3] + c[4] + c[5] + c[6] + c[7] + c[8]
    IN  /\ \A i \in 1..Len(scores) :
              scores[i].total_score = SumOfEight(scores[i].criteria)
        /\ (last_returned # NoScore =>
               last_returned.total_score = SumOfEight(last_returned.criteria))

\* the model wrote "total_score": 12 next to eight tens; the score says 80
C9_Witness ==
    /\ last_response # NoResponse
    /\ ~last_response.raises
    /\ last_response.content = <<"text", "{", "obj80", "}", "text">>
    /\ last_returned.feedback = "model"
    /\ last_returned.total_score = 80
    /\ scores # <<>>
    /\ scores[Len(scores)] = last_returned

(***************************************************************************)
(* C10: when the response holds no parsable JSON object between its first  *)
(* "{" and its last "}", or the object lacks a required field, or the      *)
(* judge model cannot be created, or its invocation raises, the score      *)
(* returned has eight criteria of 6 and a total of 48.                     *)
(***************************************************************************)
ObjectBetweenBraces(content) ==
    \E i, j \in 1..Len(content) :
        /\ content[i] = "{"
        /\ \A k \in 1..(i - 1) : content[k] # "{"
        /\ content[j] = "}"
        /\ \A k \in (j + 1)..Len(content) : content[k] # "}"
        /\ j = i + 2
        /\ content[i + 1] \in DOMAIN JsonObjects

LacksRequiredField(content) ==
    \E i \in 1..Len(content) :
        /\ content[i] \in DOMAIN JsonObjects
        /\ JsonObjects[content[i]].lacks # {}

FallbackCase ==
    /\ last_response # NoResponse
    /\ \/ judge_model # "ok"
       \/ last_response.raises
       \/ ~ObjectBetweenBraces(last_response.content)
       \/ LacksRequiredField(last_response.content)

C10_FallbackScore ==
    FallbackCase =>
        /\ last_returned.criteria = <<6, 6, 6, 6, 6, 6, 6, 6>>
        /\ last_returned.total_score = 48

\* the response "not json" to a judge whose model exists
C10_Witness ==
    /\ judge_model = "ok"
    /\ last_response # NoResponse
    /\ ~last_response.raises
    /\ last_response.content = <<"not json">>
    /\ last_returned.criteria = <<6, 6, 6, 6, 6, 6, 6, 6>>
    /\ last_returned.total_score = 48

(***************************************************************************)
(* C11: execute_tool_call never raises: every call returns a text.  For a  *)
(* tool name that is not registered the text is the error that names the   *)
(* tool and lists the registered names, and no tool was invoked; when the  *)
(* tool fails, with a parameter mismatch or with any other exception, the  *)
(* text is an error text that names the tool.                              *)
(***************************************************************************)
ToolFailed ==
    /\ fn_result.invoked
    /\ fn_call.first # "ok"
    /\ \/ fn_call.executor = "base"
       \/ fn_call.retry # "ok"
       \/ /\ fn_call.tool_call.args \cap essential_keys = {}
          /\ ~invokes_again(fn_call.tool_call.name,
                            filter_arguments(
                                registered_tool(fn_call.tool_call.name),
                                fn_call.tool_call.name,
                                fn_call.tool_call.args),
                            fn_call.first)

C11_DispatcherNeverRaises ==
    (fn_call.fn = "execute_tool_call" /\ fn_result # NoCall) =>
        LET tool_call == fn_call.tool_call
            registry == IF fn_call.executor = "base" THEN tool_map
                        ELSE yt_tool_map
        IN  /\ fn_result.kind = "returned"
            /\ fn_result.text # <<>>
            /\ (tool_call.shape # "other" /\ tool_call.name # Missing
                /\ tool_call.name \notin registry) =>
                  /\ fn_result.text =
                        <<"Error: Tool not found. Available tools:",
                          tool_call.name>>
                  /\ ~fn_result.invoked
            /\ ToolFailed =>
                  /\ fn_result.text[1] \in
                        {"Error executing tool",
                         "Tool execution failed: unexpected parameter"}
                  /\ fn_result.text[2] = tool_call.name

\* the YouTube dispatcher with a tool that raises TypeError on every call
C11_Witness ==
    /\ fn_call.fn = "execute_tool_call"
    /\ fn_call.executor = "youtube"
    /\ fn_call.tool_call = index_call
    /\ fn_call.first = "TypeError"
    /\ fn_call.retry = "TypeError"
    /\ fn_result # NoCall
    /\ fn_result.kind = "returned"
    /\ fn_result.text = <<"Error executing tool", "search_web", "exc", "(Filtered)">>

(***************************************************************************)
(* C12: in run_rap_battle with a judge, the evaluation of turn N is over   *)
(* before turn N+1 begins, whatever the judge does (model creation fails,  *)
(* the invocation raises, the response cannot be parsed), no failure of    *)
(* the judge stops the loop, and the run ends after max_turns turns with   *)
(* finalize_judgment called exactly once.                                  *)
(***************************************************************************)
JudgingInStep ==
    (driver = "rap" /\ with_judge) =>
        /\ pc = "battle_loop" => eval_calls = state.conversation_count
        /\ pc = "battle_judge" => eval_calls = state.conversation_count - 1
        /\ pc # "returned" => finalize_calls = 0
        /\ pc = "returned" =>
              /\ state.conversation_count = max_turns
              /\ Len(turn_log) = max_turns
              /\ eval_calls = max_turns
              /\ finalize_calls = 1
              /\ judgment # NoJudgment

C12_JudgeNeverHaltsLoop ==
    /\ []JudgingInStep
    /\ (driver = "rap") ~> (pc = "returned")

\* a battle of two turns whose judge fell back both times, one time on a
\* raising invocation
C12_Witness ==
    /\ driver = "rap"
    /\ with_judge
    /\ pc = "returned"
    /\ max_turns = 2
    /\ eval_calls = 2
    /\ last_response.raises
    /\ scores = <<>>
    /\ finalize_calls = 1
    /\ judgment.winner = "tie"

(***************************************************************************)
(* C13: when the first stream of a turn raises, the text accumulated       *)
(* before the failure is kept: the content of the message the turn builds  *)
(* from the stream begins with that text and goes on with the error text.  *)
(***************************************************************************)
\* the message a step that ends the first stream has built
StreamMessage ==
    IF pc' \in {"tools", "yt_tools", "yt_final"}
    THEN new_messages'[Len(new_messages')]
    ELSE state'.messages[Len(state'.messages)]

C13_PartialTextKept ==
    [][(StreamRaise \/ YTStreamRaise) =>
          /\ IsPrefix(accumulated_content, StreamMessage.content)
          /\ StreamMessage.content # accumulated_content]_vars

\* what the code does: the error text replaces the accumulated text
StreamErrorReplacesText ==
    [][(StreamRaise \/ YTStreamRaise) =>
          /\ StreamMessage.content[1] =
                "Error occurred during response generation: "
          /\ \A i \in 1..Len(StreamMessage.content) :
                StreamMessage.content[i] # "txt"]_vars

(***************************************************************************)
(* C14: a tool-call request without name or without identifier is skipped: *)
(* it is not dispatched and gets no tool-result message, the well-formed   *)
(* requests of the same turn are dispatched, each with its tool-result     *)
(* message, and the turn ends with its final assistant message.            *)
(***************************************************************************)
Malformed(tool_call) == tool_call.name = Missing \/ tool_call.id = Missing

WellFormed(tool_call) == ~Malformed(tool_call)

MalformedSkipped ==
    LET well_formed == SelectSeq(turn_hist.calls, WellFormed)
    IN  /\ exec_log = well_formed
        /\ Len(Appended) = Len(well_formed) + 2
        /\ \A k \in 1..Len(well_formed) :
              /\ Appended[1 + k].type = "tool"
              /\ Appended[1 + k].tool_call_id = well_formed[k].id
        /\ Appended[Len(Appended)].type = "ai"

C14_MalformedSkipped == ToolTurnDone => MalformedSkipped

\* the YouTube agent does skip them
YouTubeMalformedSkipped ==
    (driver = "youtube" /\ ToolTurnDone) => MalformedSkipped

\* BaseStreamingAgent dispatches them: a turn whose only request has no
\* identifier ends with a tool-result message tagged with a synthesized one
GraphDispatchesMalformed ==
    /\ driver = "graph"
    /\ ToolTurnDone
    /\ turn_hist.calls = <<no_id_call>>
    /\ exec_log = <<no_id_call>>
    /\ Len(Appended) = 3
    /\ Appended[2].type = "tool"

(***************************************************************************)
(* C15: a turn of run_streaming_debate in which no tool call was requested *)
(* or tools are disabled appends exactly one assistant message, without    *)
(* tool calls, whose content is the text accumulated from the stream; a    *)
(* run without tool turns therefore keeps the transcript at the seed       *)
(* message followed by one assistant message per completed turn, in the    *)
(* order of the turns, and returns with conversation_count = max_turns.    *)
(***************************************************************************)
NoToolTurn == tool_calls = <<>> \/ ~with_tools

NoToolRun == ~with_tools \/ calls_emitted = 0

OneAssistantMessage(content) ==
    /\ state'.messages = Append(state.messages, AIMessage(content, <<>>))
    /\ state'.conversation_count = state.conversation_count + 1
    /\ pc' = "loop"

SeedThenAssistantMessages ==
    /\ state.messages[1] = HumanMessage(initial_prompt)
    /\ Len(state.messages) = 1 + state.conversation_count
    /\ \A k \in 2..Len(state.messages) :
          /\ state.messages[k].type = "ai"
          /\ state.messages[k].tool_calls = <<>>
    /\ (pc = "returned" => state.conversation_count = max_turns)

C16_EmptyFinalize ==
    [][(FinalizeJudgment /\ scores = <<>>) =>
          /\ judgment' # NoJudgment
          /\ judgment'.total_A = 0
          /\ judgment'.total_B = 0
          /\ judgment'.winner = "tie"
          /\ judgment'.margin = 0
          /\ scores' = <<>>]_vars

C16_Witness ==
    /\ pc = "judge"
    /\ scores = <<>>
    /\ eval_calls > 0
    /\ judgment # NoJudgment
    /\ judgment.winner = "tie"

(***************************************************************************)
(* C17: the judgment finalize_judgment returns for an empty score          *)
(* collection has the lowest tier of the judge's quality scale as quality: *)
(* poor for the debate judge, weak for the rap judge.                      *)
(***************************************************************************)
\* the tier the scale gives to one scored turn worth nothing
LowestTier(kind) == quality_of(kind, 0, 0, 1)

IsDefaultJudgment == judgment # NoJudgment /\ scores = <<>>

C17_DefaultQualityLowest ==
    IsDefaultJudgment =>
        /\ judgment.quality = LowestTier(judge_kind)
        /\ judgment.quality = IF judge_kind = "debate" THEN "poor" ELSE "weak"

\* what the code returns: a middle tier for debates, a label outside the
\* scale for rap battles
DefaultQualityIsLiteral ==
    IsDefaultJudgment =>
        judgment.quality = IF judge_kind = "debate" THEN "fair" ELSE "incomplete"

(***************************************************************************)
(* C18: every score the judge produces, stored or returned, has each of    *)
(* its eight criteria between 0 and 10 and its total between 0 and 80,     *)
(* whatever numbers the judge model wrote in its JSON.                     *)
(***************************************************************************)
InRange(score) ==
    /\ \A i \in 1..8 : 0 <= score.criteria[i] /\ score.criteria[i] <= 10
    /\ 0 <= score.total_score
    /\ score.total_score <= 80

C18_ScoresInRange ==
    /\ \A k \in 1..Len(scores) : InRange(scores[k])
    /\ (last_returned # NoScore => InRange(last_returned))

\* what the code does: the numbers of the model's object are stored as
\* they are
ModelValuesStoredAsGiven ==
    (last_returned # NoScore /\ last_returned.feedback = "model") =>
        \E o \in DOMAIN JsonObjects :
            /\ last_response.content = <<"text", "{", o, "}", "text">>
            /\ last_returned.criteria = JsonObjects[o].values

OutOfRangeScoreStored ==
    /\ scores # <<>>
    /\ scores[Len(scores)].criteria = <<12, 12, 12, 12, 12, 12, 12, -3>>
    /\ scores[Len(scores)].total_score = 81

(***************************************************************************)
(* C19: each of the four category winners of a final judgment is decided   *)
(* on its own, from the two sides' means of that criterion over their own  *)
(* turns, the mean of a side without turns being 0: the category is a tie  *)
(* exactly when the means differ by less than 0.5, and otherwise the side  *)
(* with the higher mean has it, whoever wins overall.                      *)
(***************************************************************************)
TurnsOf(side) == {k \in 1..Len(scores) : scores[k].speaker = side}

\* the sum of one criterion over a set of turns
RECURSIVE CriterionSum(_, _)
CriterionSum(turns, category) ==
    IF turns = {} THEN 0
    ELSE LET k == CHOOSE k \in turns : TRUE
         IN  scores[k].criteria[category] + CriterionSum(turns \ {k}, category)

\* mean(side_A) - mean(side_B), times 2 * n_A * n_B to stay in whole numbers
TwiceScaledMeanGap(category) ==
    LET turns_A == TurnsOf(SideA(judge_kind))
        turns_B == TurnsOf(SideB(judge_kind))
        n_A == IF turns_A = {} THEN 1 ELSE Cardinality(turns_A)
        n_B == IF turns_B = {} THEN 1 ELSE Cardinality(turns_B)
    IN  [gap |-> 2 * (CriterionSum(turns_A, category) * n_B
                      - CriterionSum(turns_B, category) * n_A),
         unit |-> n_A * n_B]

CategoryDecided(c) ==
    LET g == TwiceScaledMeanGap(category_fields(judge_kind)[c])
    IN  /\ (judgment.best[c] = "tie") <=> (abs(g.gap) < g.unit)
        /\ (judgment.best[c] = SideA(judge_kind)) <=> (g.gap >= g.unit)
        /\ (judgment.best[c] = SideB(judge_kind)) <=> (0 - g.gap >= g.unit)

C19_CategoryWinners ==
    (judgment # NoJudgment /\ scores # <<>>) =>
        \A c \in 1..4 : CategoryDecided(c)

\* a debate won overall by the progressive side, 99 to 51, in which the
\* conservative side takes the first category by a mean of 7 against 6.5,
\* exactly 0.5 apart, and the fourth category is a tie
C19_Witness ==
    /\ judge_kind = "debate"
    /\ judgment # NoJudgment
    /\ Len(scores) = 3
    /\ Cardinality(TurnsOf("progressive")) = 2
    /\ CriterionSum(TurnsOf("progressive"), 1) = 13
    /\ CriterionSum(TurnsOf("conservative"), 1) = 7
    /\ judgment.best[1] = "conservative"
    /\ judgment.best[4] = "tie"
    /\ judgment.winner = "progressive"

(***************************************************************************)
(* C20: filter_arguments returns an argument mapping unchanged when all    *)
(* its keys are expected parameters of the tool, whatever the tool; it     *)
(* filters a mapping with the expected key query and the unexpected key    *)
(* index to the mapping with query alone; and filtering its own output     *)
(* again changes nothing.                                                  *)
(***************************************************************************)
Filtered == fn_result.fn = "filter_arguments"

CleanInput == fn_call.tool_args \subseteq get_expected_parameters(fn_call.tool)

FilterDropsIndex ==
    (/\ fn_call.tool_args = {"query", "index"}
     /\ "query" \in get_expected_parameters(fn_call.tool))
        => fn_result.value = {"query"}

FilterIdempotent == fn_result.again = fn_result.value

C20_FilterKeepsCleanInput ==
    Filtered =>
        /\ (CleanInput => fn_result.value = fn_call.tool_args)
        /\ FilterDropsIndex
        /\ FilterIdempotent

\* what the code does: index is dropped and the filter is idempotent for
\* every tool, and clean input is kept except for the keys of
\* PROBLEMATIC_PARAMS, which are removed even when the schema declares them
FilterKeepsCleanInputButProblematic ==
    Filtered =>
        /\ (CleanInput =>
              fn_result.value = fn_call.tool_args \ PROBLEMATIC_PARAMS)
        /\ FilterDropsIndex
        /\ FilterIdempotent

DeclaredCountRemoved ==
    /\ Filtered
    /\ fn_call.tool = paged_search_tool
    /\ fn_call.tool_args = {"query", "count"}
    /\ fn_result.value = {"query"}

(***************************************************************************)
(* C21: for a tool whose schema declares its parameters, every key of the  *)
(* mapping filter_arguments returns is a declared parameter and none is in *)
(* PROBLEMATIC_PARAMS; every other key of the request is dropped.          *)
(***************************************************************************)
HasSchema == get_expected_parameters(fn_call.tool) # {}

C21_OnlyDeclaredKeysKept ==
    (Filtered /\ HasSchema) =>
        /\ fn_result.value \subseteq get_expected_parameters(fn_call.tool)
        /\ fn_result.value \cap PROBLEMATIC_PARAMS = {}

\* what the code does: the result is made of keys of the request outside
\* PROBLEMATIC_PARAMS, and of declared keys when the request has one of
\* them left; a request left with undeclared keys only keeps those the
\* safety fallback finds reasonable
FilterFallsBackToReasonable ==
    (Filtered /\ HasSchema) =>
        LET filtered_args == fn_call.tool_args \ PROBLEMATIC_PARAMS
            declared == filtered_args \cap get_expected_parameters(fn_call.tool)
        IN  /\ fn_result.value \subseteq filtered_args
            /\ (declared # {} => fn_result.value = declared)
            /\ (declared = {} =>
                  fn_result.value =
                      {k \in filtered_args : is_reasonable_parameter(k)})

UndeclaredKeyKept ==
    /\ Filtered
    /\ fn_call.tool = search_web_tool
    /\ fn_call.tool_args = {"verbose", "index"}
    /\ fn_result.value = {"verbose"}

(***************************************************************************)
(* C22: for one tool-call request the tool's callable is invoked at most   *)
(* twice, the first attempt and one repair attempt, before the wrapper or  *)
(* the dispatcher gives up.                                                *)
(***************************************************************************)
ToolRan == fn_result # NoCall /\ fn_result.fn \in {"safe_run", "invoke_tool_safely"}

C22_AtMostTwoInvocations == ToolRan => fn_result.invocations <= 2

\* what the code does: one more call per essential argument, and in
\* safe_run one more per argument outside the deny-list
InvocationsBoundedByArguments ==
    ToolRan =>
        fn_result.invocations <= 2 + 2 * Cardinality(fn_call.kwargs)

ThreeInvokes ==
    /\ ToolRan
    /\ fn_call.fn = "invoke_tool_safely"
    /\ fn_call.tool = strategy_generator_tool
    /\ fn_call.kwargs = {"query", "niche"}
    /\ fn_result.kind = "raised"
    /\ fn_result.invocations = 3

FiveInvocations ==
    /\ ToolRan
    /\ fn_call.fn = "safe_run"
    /\ fn_call.kwargs = {"query", "niche"}
    /\ fn_call.first = "Exception"
    /\ fn_result.invocations = 5

(***************************************************************************)
(* C28: filter_arguments for a tool is unaffected by earlier calls of      *)
(* other tools: a wrapped tool that failed with an unexpected keyword      *)
(* argument leaves PROBLEMATIC_PARAMS as it was, so that every later       *)
(* filter_arguments returns what it returns in a fresh process and no      *)
(* parameter a tool declares is dropped because another tool rejected a    *)
(* parameter of that name.                                                 *)
(***************************************************************************)
C28_FilterUnaffectedByOtherTools ==
    /\ problematic_params = PROBLEMATIC_PARAMS
    /\ Filtered =>
          fn_result.value = filter_with(PROBLEMATIC_PARAMS, fn_call.tool,
                                        fn_call.tool.name, fn_call.tool_args)

\* what the code does: the deny-list only grows, by the keywords wrapped
\* tools rejected, and the filter follows it
DenyListGrows ==
    [][/\ PROBLEMATIC_PARAMS \subseteq problematic_params
       /\ problematic_params \subseteq problematic_params'
       /\ (SafeRun /\ fn_call.first = "TypeError_keyword") =>
             problematic_params' = problematic_params \cup {fn_call.rejected}
      ]_vars

\* strategy_generator loses its declared parameter niche after search_web
\* rejected a keyword niche
DeclaredParamDropped ==
    /\ Filtered
    /\ "niche" \in problematic_params
    /\ fn_call.tool = strategy_generator_tool
    /\ fn_call.tool_args = {"niche"}
    /\ fn_result.value = {}

(***************************************************************************)
(* C23: a run with a ui and a run without one behave alike: for the same   *)
(* judge response every evaluate_turn call returns the score it returns    *)
(* without a ui, and records the same score.                               *)
(***************************************************************************)
\* what the last call returns and stores when made without a ui
Headless ==
    [returned |-> evaluate_turn(last_returned.turn_number,
                                last_returned.speaker, last_response).returned,
     stores |-> /\ judge_model = "ok"
                /\ ~last_response.raises
                /\ parse_evaluation_response(judge_kind,
                                             last_response.content).numeric]

C23_HeadlessIdentical ==
    last_returned # NoScore =>
        /\ last_returned = Headless.returned
        /\ Headless.stores => scores[Len(scores)] = Headless.returned

\* what the code keeps: the recorded scores are those of the headless run,
\* and the returned score differs only by being the fallback score
SinkKeepsRecordedScores ==
    last_returned # NoScore =>
        /\ Headless.stores => scores[Len(scores)] = Headless.returned
        /\ \/ last_returned = Headless.returned
           \/ /\ ui
              /\ last_returned = create_fallback_score(last_returned.turn_number,
                                                       last_returned.speaker)

SinkChangesReturn ==
    /\ ui
    /\ last_returned # NoScore
    /\ last_returned.feedback = "fallback_score"
    /\ scores # <<>>
    /\ scores[Len(scores)].feedback = "model"
    /\ scores[Len(scores)].turn_number = last_returned.turn_number

(***************************************************************************)
(* C24: the prompt a turn sends to the model holds the side's persona and  *)
(* every message of the transcript in order, the seed included: on the     *)
(* first turn the persona is prepended to the seed message, on later turns *)
(* a fresh leading message with the persona precedes the whole transcript. *)
(***************************************************************************)
\* the turn has just built its prompt from the transcript in state
PromptBuilt == pc = "stream" /\ chunks_seen = 0

PersonaLeads(prompt) ==
    /\ prompt # <<>>
    /\ prompt[1].type = "human"
    /\ IsPrefix(persona_text(state.current_speaker), prompt[1].content)

C24_PromptHoldsTranscript ==
    PromptBuilt =>
        /\ PersonaLeads(messages)
        /\ IF Len(state.messages) = 1
           THEN messages = <<HumanMessage(persona_text(state.current_speaker)
                                          \o state.messages[1].content)>>
           ELSE Tail(messages) = state.messages

\* what the code does keep: the class-based agents build the prompt so, and
\* the function-based ones keep the persona and every message after the seed
PromptHoldsReplies ==
    PromptBuilt =>
        /\ PersonaLeads(messages)
        /\ IF driver = "graph"
           THEN C24_PromptHoldsTranscript
           ELSE Tail(messages) = Tail(state.messages)

SeedDropped ==
    /\ PromptBuilt
    /\ driver = "legacy"
    /\ state.current_speaker = "right"
    /\ Len(state.messages) > 1
    /\ Len(messages) = Len(state.messages)
    /\ \A i \in 1..Len(messages) :
         \A j \in 1..Len(messages[i].content) :
            messages[i].content[j] # state.messages[1].content[1]

(***************************************************************************)
(* C25: a rap battle of R rounds runs exactly 2R turns, R verses for each  *)
(* rapper, and the round number the judge gets for turn t is ceil(t / 2):  *)
(* both verses of a round are scored under the same round number.          *)
(***************************************************************************)
VersesOf(rapper) ==
    Cardinality({i \in 1..Len(turn_log) : turn_log[i] = rapper})

\* the judge has just been called for turn state.conversation_count
RoundJudged ==
    /\ pc = "battle_loop"
    /\ with_judge
    /\ state.conversation_count > 0
    /\ last_returned # NoScore

EachRapperHasItsVerses ==
    pc = "returned" =>
        /\ Len(turn_log) = max_turns
        /\ VersesOf("rapper1") = max_turns \div 2
        /\ VersesOf("rapper2") = max_turns \div 2

C25_RoundIsHalfTheTurn ==
    /\ EachRapperHasItsVerses
    /\ RoundJudged =>
           last_returned.turn_number = (state.conversation_count + 1) \div 2

\* what the code does: the counter advances after the first rapper's verse,
\* so the second verse of a round is scored under the next round's number
RoundAdvancesAfterFirstVerse ==
    /\ EachRapperHasItsVerses
    /\ RoundJudged =>
           last_returned.turn_number = 1 + (state.conversation_count \div 2)

SecondVerseUnderNextRound ==
    /\ RoundJudged
    /\ state.conversation_count = 2
    /\ turn_log = <<"rapper1", "rapper2">>
    /\ last_returned.speaker = "rapper2"
    /\ last_returned.turn_number = 2

(***************************************************************************)
(* C26: the YouTube workflow generator ends with one final state whose     *)
(* workflow_status is "completed" or "error", never "running"; it is       *)
(* "error" exactly when a phase function or an agent's stream raised, the  *)
(* text of the exception is then appended to error_messages and no later   *)
(* phase runs; step_count never exceeds max_steps and at most max_steps    *)
(* phases run.                                                             *)
(***************************************************************************)
WorkflowOver == pc = "yt_done"

FinalStatus ==
    /\ WorkflowOver => current_state.workflow_status \in {"completed", "error"}
    /\ current_state.workflow_status = "error" =>
           /\ WorkflowOver
           /\ current_state.error_messages = <<<<"exc">>>>
           /\ Len(turn_log) = current_state.step_count
    /\ current_state.workflow_status # "error" =>
           current_state.error_messages = <<>>

StepsWithinBudget ==
    /\ current_state.step_count <= max_steps
    /\ Len(turn_log) <= max_steps
    /\ Len(turn_log) = current_state.step_count

\* the step into the final yield: "error" exactly after a raise
ErrorExactlyAfterRaise ==
    (WorkflowOver' /\ ~WorkflowOver) =>
        /\ (current_state'.workflow_status = "error") <=> (pc = "yt_except")
        /\ turn_log' = turn_log

C26_WorkflowEnds ==
    /\ [](FinalStatus /\ StepsWithinBudget)
    /\ [][ErrorExactlyAfterRaise]_vars
    /\ <>WorkflowOver

C26_Witness ==
    /\ WorkflowOver
    /\ current_state.workflow_status = "error"
    /\ current_state.step_count = 2
    /\ max_steps = 2
    /\ Len(workflow_steps) > 2
    /\ current_state.error_messages = <<<<"exc">>>>

(***************************************************************************)
(* C30: the YouTube workflow keeps its messages across phases: for every   *)
(* selection of agents the messages after a phase have the messages after  *)
(* the phase before it as a prefix.                                        *)
(***************************************************************************)
\* a phase has run to its end and the loop goes on
PhaseDone == pc = "yt_loop" /\ pc' = "yt_loop" /\ step_idx' = step_idx + 1

C30_MessagesKeptAcrossPhases ==
    [][PhaseDone =>
          IsPrefix(current_state.messages, current_state'.messages)]_vars

\* what the code does: the competitor analysis and the research phase start
\* a new list with their own prompt, every other phase appends to the list
PhaseAppendsOrRestarts ==
    [][PhaseDone =>
          LET phase == workflow_steps[step_idx + 1].phase
              prompt == HumanMessage(<<"prompt", phase>>)
          IN  /\ Len(current_state'.messages) >= 2
              /\ IF phase \in {"competitor_analysis", "research"}
                 THEN /\ Len(current_state'.messages) = 2
                      /\ current_state'.messages[1] = prompt
                 ELSE /\ IsPrefix(Append(current_state.messages, prompt),
                                  current_state'.messages)
                      /\ Len(current_state'.messages) =
                             Len(current_state.messages) + 2]_vars

ResearchDropsCompetitorAnalysis ==
    /\ pc = "yt_loop"
    /\ turn_log = <<"competitor_analyst", "researcher">>
    /\ current_state.step_count = 2
    /\ Len(current_state.messages) = 2
    /\ current_state.messages[1] = HumanMessage(<<"prompt", "research">>)
    /\ \A i \in 1..Len(current_state.messages) :
         current_state.messages[i]
             # HumanMessage(<<"prompt", "competitor_analysis">>)

(***************************************************************************)
(* C27: after every turn the transcript is well-paired: every tool call    *)
(* listed in an assistant message is followed, before the next assistant   *)
(* message, by exactly one tool-result message with that call's id, and    *)
(* every tool-result message carries the id of a call listed in the        *)
(* nearest assistant message before it; also for requests without id or    *)
(* name, of an unsupported shape, or left out of the assistant message.    *)
(***************************************************************************)
TurnOver == pc \in {"loop", "returned", "yt_loop", "yt_done"}

IsAssistant(msgs, i) == msgs[i].type = "ai"

\* the tool-result messages between assistant message i and the next one
ResultsAfter(msgs, i) ==
    {j \in (i + 1)..Len(msgs) :
        /\ msgs[j].type = "tool"
        /\ \A m \in (i + 1)..j : ~IsAssistant(msgs, m)}

CallIds(message) ==
    {message.tool_calls[k].id : k \in 1..Len(message.tool_calls)}

EveryCallAnswered(msgs) ==
    \A i \in 1..Len(msgs) :
        IsAssistant(msgs, i) =>
            \A k \in 1..Len(msgs[i].tool_calls) :
                Cardinality({j \in ResultsAfter(msgs, i) :
                    msgs[j].tool_call_id = msgs[i].tool_calls[k].id}) = 1

EveryResultAsked(msgs) ==
    \A i \in 1..Len(msgs) :
        IsAssistant(msgs, i) =>
            \A j \in ResultsAfter(msgs, i) :
                msgs[j].tool_call_id \in CallIds(msgs[i])

WellPaired(msgs) == EveryCallAnswered(msgs) /\ EveryResultAsked(msgs)

C27_TranscriptWellPaired == TurnOver => WellPaired(state.messages)

\* what the code does keep: a turn whose requests are all dicts with a name
\* and an id, and whose assistant message was built with them, is paired
PairedWhenWellFormed ==
    (/\ ToolTurnDone
     /\ \A k \in 1..Len(turn_hist.calls) : WellFormed(turn_hist.calls[k])
     /\ Len(Appended[1].tool_calls) = Len(turn_hist.calls)) =>
        WellPaired(Appended)

\* BaseStreamingAgent: a result tagged "tool_call_<n>" for the request
\* without id, which the assistant message lists without one
ResultWithSynthesizedId ==
    /\ ToolTurnDone
    /\ driver = "graph"
    /\ turn_hist.calls = <<no_id_call>>
    /\ Appended[1].tool_calls = <<no_id_call>>
    /\ Appended[2].type = "tool"
    /\ Appended[2].tool_call_id \notin CallIds(Appended[1])

\* BaseStreamingAgent: a listed request of unsupported shape has no result
ListedCallWithoutResult ==
    /\ ToolTurnDone
    /\ driver = "graph"
    /\ Appended[1].tool_calls = <<no_name_call, other_call, unknown_call>>
    /\ Cardinality(ResultsAfter(Appended, 1)) = 2

\* the YouTube agent: results after an assistant message without tool calls
ResultsWithoutCalls ==
    /\ ToolTurnDone
    /\ driver = "youtube"
    /\ Appended[1].tool_calls = <<>>
    /\ ResultsAfter(Appended, 1) # {}

(***************************************************************************)
(* C29: finalize counts every recorded score in exactly one side's total:  *)
(* total_A + total_B is the sum of total_score over all recorded scores,   *)
(* for every speaker label and also when both rappers have the same name.  *)
(***************************************************************************)
RECURSIVE sum_of_scores(_)
sum_of_scores(collection) ==
    IF collection = <<>> THEN 0
    ELSE Head(collection).total_score + sum_of_scores(Tail(collection))

TotalsComputed == fn_result # NoCall /\ fn_result.fn = "finalize_judgment"

C29_TotalsPartitionScores ==
    TotalsComputed =>
        fn_result.total_A + fn_result.total_B = sum_of_scores(scores)

\* what the code does: each total is the sum over the scores that carry the
\* side's name, which is a partition when the names differ and no score
\* carries another label
TotalsOfNamedSides ==
    TotalsComputed =>
        /\ fn_result.total_A = side_total(scores, fn_call.name_A)
        /\ fn_result.total_B = side_total(scores, fn_call.name_B)
        /\ (/\ fn_call.name_A # fn_call.name_B
            /\ \A i \in 1..Len(scores) :
                  scores[i].speaker \in {fn_call.name_A, fn_call.name_B}) =>
               fn_result.total_A + fn_result.total_B = sum_of_scores(scores)

ScoreInNoTotal ==
    /\ TotalsComputed
    /\ judge_kind = "debate"
    /\ \E i \in 1..Len(scores) : scores[i].speaker = "moderator"
    /\ fn_result.total_A + fn_result.total_B < sum_of_scores(scores)

ScoreInBothTotals ==
    /\ TotalsComputed
    /\ judge_kind = "rap"
    /\ fn_call.name_A = fn_call.name_B
    /\ fn_result.total_A = sum_of_scores(scores)
    /\ fn_result.total_B = sum_of_scores(scores)
    /\ sum_of_scores(scores) > 0

====
